---- MODULE Spec2Model ----
(***************************************************************************)
(* go-check-updates: the update-discovery pipeline.                        *)
(*                                                                         *)
(* Text is modelled as sequences of one-character strings, so that the     *)
(* string operations of the code (TrimSpace, HasPrefix, Index, Fields,     *)
(* Contains, Split) are computed and not assumed.                          *)
(*                                                                         *)
(* Specifications:                                                         *)
(*   SpecGomod    ParseRequireIndex on generated go.mod texts              *)
(*   SpecCooldown cooldown.Eligible on timestamps, minDays and now         *)
(*   SpecFilter   GetUpdatesFrom's filter compilation and AnnotateAndFilter*)
(*   SpecDecode   DecodeGoListModules on generated go list buffers         *)
(***************************************************************************)
EXTENDS Integers, Sequences, FiniteSets, TLC

VARIABLES
    \* ---- gomod.ParseRequireIndex
    gmItems,        \* the lines the go.mod text was written from
    goModContents,  \* the go.mod text
    idx,            \* the RequireIndex returned
    gmPc,
    \* ---- cooldown.Eligible
    updateTime, minDays, now, eligible, cdPc,
    \* ---- scanner.GetUpdatesFrom
    modules,        \* the modules decoded from go list
    reqIndex,       \* the index read from go.mod
    opts, scanNow, out, scanErr, scanPc,
    \* ---- scanner.DecodeGoListModules
    pieces,         \* the pieces the buffer was written from
    output,         \* the buffer go list returned
    decoded, decodeErr, decPc,
    \* ---- scanner.GetUpdatesFrom with its environment
    goModFile,      \* the file at goModPath: readable or not, and its contents
    goList,         \* goListAllModulesOutput: whether it fails, and its output
    getOpts,        \* the parameter opts
    getLocals,      \* the locals idx, output and modules
    getRet,         \* the ([]Module, error) returned
    listCalls,      \* how many times goListAllModulesOutput was called
    getPc,
    \* ---- style.GetDiffType
    v1, v2, diff, diffPc,
    \* ---- format.GroupForModule, GroupLabel, GroupSortKey
    fmtModule,      \* the module passed to the three functions
    group, label, sortKey,
    groupCalls,     \* the functions that have returned
    \* ---- app.Run with its dependencies
    runOpts, runDeps, runVuln, runLocals, runCalls, runOut, runRet, runPc,
    \* ---- updater.UpdatePackages and the two commands
    updModules, updEnv, updCalls, updRet, updPc,
    \* ---- vuln.RealClient.CheckModule, one caller
    ckDatabase, ckCache, ckLast, ckCalls,
    \* ---- vuln.RealClient with concurrent callers
    vcCache, vcMu, vcCaller, vcWritten, vcStarts,
    \* ---- tui.StartInteractiveGroupedWithOptions and its model
    tuiArgs, tuiModel, tuiLast, tuiKeys, tuiCalls, tuiPc,
    \* ---- npm.Scanner.GetUpdates and its goroutines
    npmEnv, npmCandidates, npmWorker, npmSem, npmMu, npmWg, npmModules, npmRet, npmPc

gomodVars == <<gmItems, goModContents, idx, gmPc>>
cooldownVars == <<updateTime, minDays, now, eligible, cdPc>>
filterVars == <<modules, reqIndex, opts, scanNow, out, scanErr, scanPc>>
decodeVars == <<pieces, output, decoded, decodeErr, decPc>>
getVars == <<goModFile, goList, getOpts, getLocals, getRet, listCalls, getPc>>
diffVars == <<v1, v2, diff, diffPc>>
groupVars == <<fmtModule, group, label, sortKey, groupCalls>>
runVars == <<runOpts, runDeps, runVuln, runLocals, runCalls, runOut, runRet, runPc>>
updVars == <<updModules, updEnv, updCalls, updRet, updPc>>
checkVars == <<ckDatabase, ckCache, ckLast, ckCalls>>
clientVars == <<vcCache, vcMu, vcCaller, vcWritten, vcStarts>>
tuiVars == <<tuiArgs, tuiModel, tuiLast, tuiKeys, tuiCalls, tuiPc>>
npmVars == <<npmEnv, npmCandidates, npmWorker, npmSem, npmMu, npmWg, npmModules, npmRet, npmPc>>
vars == <<gomodVars, cooldownVars, filterVars, decodeVars, getVars, diffVars, groupVars, runVars, updVars, checkVars, clientVars, tuiVars, npmVars>>

(***************************************************************************)
(* Bounds                                                                  *)
(***************************************************************************)
MaxLines == 3

(***************************************************************************)
(* package strings                                                         *)
(***************************************************************************)
IsSpace(c) == c \in {" ", "\t", "\n", "\r"}

Drop(s, k) == SubSeq(s, k + 1, Len(s))

HasPrefix(s, prefix) ==
    /\ Len(s) >= Len(prefix)
    /\ SubSeq(s, 1, Len(prefix)) = prefix

TrimPrefix(s, prefix) == IF HasPrefix(s, prefix) THEN Drop(s, Len(prefix)) ELSE s

\* strings.Index: the 0-based index of the first occurrence of substr, or -1
Index(s, substr) ==
    LET hits == {i \in 0..(Len(s) - Len(substr)) : SubSeq(s, i + 1, i + Len(substr)) = substr}
    IN  IF hits = {} THEN -1 ELSE CHOOSE i \in hits : \A j \in hits : i <= j

Contains(s, substr) == Index(s, substr) >= 0

TrimSpace(s) ==
    LET keep == {i \in 1..Len(s) : ~IsSpace(s[i])}
    IN  IF keep = {} THEN <<>>
        ELSE SubSeq(s, CHOOSE i \in keep : \A j \in keep : i <= j,
                       CHOOSE i \in keep : \A j \in keep : i >= j)

\* strings.Split(s, sep) for a one-character separator
RECURSIVE Split(_, _)
Split(s, sep) ==
    LET i == Index(s, <<sep>>)
    IN  IF i < 0 THEN <<s>>
        ELSE <<SubSeq(s, 1, i)>> \o Split(Drop(s, i + 1), sep)

\* strings.Fields: the maximal runs of non-space characters
RECURSIVE Fields(_)
Fields(s) ==
    LET t == TrimSpace(s)
        sp == {i \in 1..Len(t) : IsSpace(t[i])}
        k == IF sp = {} THEN Len(t) + 1 ELSE CHOOSE i \in sp : \A j \in sp : i <= j
    IN  IF t = <<>> THEN <<>>
        ELSE <<SubSeq(t, 1, k - 1)>> \o Fields(Drop(t, k - 1))

(***************************************************************************)
(* package gomod                                                           *)
(***************************************************************************)
EmptyIndex == [p \in {} |-> FALSE]

IndexPut(dst, path, indirect) ==
    [p \in (DOMAIN dst) \cup {path} |-> IF p = path THEN indirect ELSE dst[p]]

\* a bug the direct-wins rule guards against: the last sighting wins
parseRequireLineLastWins(dst, line) ==
    LET i == Index(line, <<"/", "/">>)
        comment == IF i >= 0 THEN Drop(line, i + 2) ELSE <<>>
        body == IF i >= 0 THEN TrimSpace(SubSeq(line, 1, i)) ELSE line
        fields == Fields(body)
    IN  IF Len(fields) < 2 THEN dst
        ELSE IndexPut(dst, fields[1], Contains(comment, <<"i", "n", "d", "i", "r", "e", "c", "t">>))

\* a bug: every trailing comment marks the entry indirect
parseRequireLineAnyComment(dst, line) ==
    LET i == Index(line, <<"/", "/">>)
        body == IF i >= 0 THEN TrimSpace(SubSeq(line, 1, i)) ELSE line
        fields == Fields(body)
        path == fields[1]
        indirect == i >= 0
    IN  IF Len(fields) < 2 THEN dst
        ELSE IF path \in DOMAIN dst
             THEN IF ~dst[path]
                  THEN IndexPut(dst, path, FALSE)
                  ELSE IndexPut(dst, path, indirect)
             ELSE IndexPut(dst, path, indirect)

parseRequireLine(dst, line) ==
    LET i == Index(line, <<"/", "/">>)
        comment == IF i >= 0 THEN Drop(line, i + 2) ELSE <<>>
        body == IF i >= 0 THEN TrimSpace(SubSeq(line, 1, i)) ELSE line
        fields == Fields(body)
        path == fields[1]
        indirect == Contains(comment, <<"i", "n", "d", "i", "r", "e", "c", "t">>)
    IN  IF Len(fields) < 2 THEN dst
        ELSE IF path \in DOMAIN dst
             THEN IF ~dst[path]
                  THEN IndexPut(dst, path, FALSE)      \* already direct; keep direct
                  ELSE IndexPut(dst, path, indirect)   \* previously indirect
             ELSE IndexPut(dst, path, indirect)

\* the loop of ParseRequireIndex over the lines, carrying idx and inRequireBlock
RECURSIVE ScanLines(_, _, _)
ScanLines(lines, dst, inRequireBlock) ==
    IF lines = <<>> THEN dst
    ELSE LET line == TrimSpace(Head(lines))
             rest == Tail(lines)
         IN  IF line = <<>> THEN ScanLines(rest, dst, inRequireBlock)
             ELSE IF HasPrefix(line, <<"r", "e", "q", "u", "i", "r", "e", " ", "(">>) THEN ScanLines(rest, dst, TRUE)
             ELSE IF inRequireBlock /\ line = <<")">> THEN ScanLines(rest, dst, FALSE)
             ELSE IF HasPrefix(line, <<"r", "e", "q", "u", "i", "r", "e", " ">>)
                  THEN ScanLines(rest,
                                 parseRequireLine(dst, TrimSpace(TrimPrefix(line, <<"r", "e", "q", "u", "i", "r", "e", " ">>))),
                                 inRequireBlock)
             ELSE IF inRequireBlock
                  THEN ScanLines(rest, parseRequireLine(dst, line), inRequireBlock)
             ELSE ScanLines(rest, dst, inRequireBlock)

ParseRequireIndex(contents) == ScanLines(Split(contents, "\n"), EmptyIndex, FALSE)

(***************************************************************************)
(* go.mod texts: written line by line from items, as the tests write them  *)
(***************************************************************************)
PathA == <<"a", "/", "b">>
PathB == <<"c">>
ManifestPaths == {PathA, PathB}

Item(kind, id, cmt) == [kind |-> kind, id |-> id, cmt |-> cmt]

ManifestItems ==
    { Item("open", <<>>, "none"), Item("close", <<>>, "none"),
      Item("close", <<>>, "note"),
      Item("module", <<>>, "none"), Item("bare", PathA, "none"),
      Item("entry", PathA, "none"), Item("entry", PathA, "indirect"),
      Item("entry", PathB, "indirect"), Item("entry", PathB, "note"),
      Item("inline", PathA, "none"), Item("inline", PathA, "indirect") }

RenderComment(cmt) ==
    CASE cmt = "indirect" -> <<" ", "/", "/", " ", "i", "n", "d", "i", "r", "e", "c", "t">>
      [] cmt = "note" -> <<" ", "/", "/", " ", "p", "i", "n", "n", "e", "d">>
      [] OTHER -> <<>>

RenderItem(it) ==
    CASE it.kind = "open" -> <<"r", "e", "q", "u", "i", "r", "e", " ", "(">>
      [] it.kind = "close" -> <<")">> \o RenderComment(it.cmt)
      [] it.kind = "module" -> <<"m", "o", "d", "u", "l", "e", " ", "m">>
      [] it.kind = "bare" -> <<"\t">> \o it.id
      [] it.kind = "entry" -> <<"\t">> \o it.id \o <<" ", "v", "1">> \o RenderComment(it.cmt)
      [] it.kind = "inline" -> <<"r", "e", "q", "u", "i", "r", "e", " ">> \o it.id \o <<" ", "v", "1">> \o RenderComment(it.cmt)

RECURSIVE RenderManifest(_)
RenderManifest(items) ==
    IF items = <<>> THEN <<>>
    ELSE RenderItem(Head(items)) \o <<"\n">> \o RenderManifest(Tail(items))

ItemSeqs == UNION {[1..n -> ManifestItems] : n \in 0..MaxLines}

\* item i stands inside a `require (` ... `)` block
InBlock(items, i) ==
    \E j \in 1..(i - 1) :
        /\ items[j].kind = "open"
        /\ \A k \in (j + 1)..(i - 1) : items[k].kind # "close"

\* item i is a well-formed require entry
IsRequireEntry(items, i) ==
    \/ items[i].kind = "inline"
    \/ items[i].kind = "entry" /\ InBlock(items, i)

HasDirectEntry(items, id) ==
    \E i \in 1..Len(items) :
        IsRequireEntry(items, i) /\ items[i].id = id /\ items[i].cmt # "indirect"

HasIndirectEntry(items, id) ==
    \E i \in 1..Len(items) :
        IsRequireEntry(items, i) /\ items[i].id = id /\ items[i].cmt = "indirect"

(***************************************************************************)
(* SpecGomod                                                               *)
(***************************************************************************)
InitGomod ==
    /\ gmItems \in ItemSeqs
    /\ goModContents = RenderManifest(gmItems)
    /\ idx = EmptyIndex
    /\ gmPc = "start"

DoParseRequireIndex ==
    /\ gmPc = "start"
    /\ idx' = ParseRequireIndex(goModContents)
    /\ gmPc' = "parsed"
    /\ UNCHANGED <<gmItems, goModContents>>


\* C1: an identifier with at least one well-formed require entry that carries
\* no "indirect" comment is mapped to direct (false), however many indirect
\* entries for it the text holds and wherever they stand.
C1_DirectWins ==
    gmPc = "parsed" =>
        \A id \in ManifestPaths :
            HasDirectEntry(gmItems, id) => (id \in DOMAIN idx /\ idx[id] = FALSE)

\* a parsed text in which a direct entry is followed by an indirect one
C1_Witness ==
    /\ gmPc = "parsed"
    /\ \E i, j \in 1..Len(gmItems) :
        /\ i < j
        /\ IsRequireEntry(gmItems, i) /\ IsRequireEntry(gmItems, j)
        /\ gmItems[i].id = PathA /\ gmItems[j].id = PathA
        /\ gmItems[i].cmt = "none" /\ gmItems[j].cmt = "indirect"
    /\ idx[PathA] = FALSE

\* a line of the shape `<identifier> <version>` for id without an "indirect"
\* comment, wherever it stands
HasDirectLine(items, id) ==
    \E i \in 1..Len(items) :
        items[i].kind \in {"entry", "inline"} /\ items[i].id = id /\ items[i].cmt # "indirect"

HasEntry(items, id) == HasDirectEntry(items, id) \/ HasIndirectEntry(items, id)

DeclaredIn(items) ==
    {items[i].id : i \in {j \in 1..Len(items) : IsRequireEntry(items, j)}}
        \cup {<<"m", "o", "d", "u", "l", "e">> : i \in {j \in 1..Len(items) : items[j].kind = "module" /\ InBlock(items, j)}}

\* C13: ParseRequireIndex answers for every text; a line with fewer than two
\* fields adds nothing, and a line outside every require declaration adds no
\* identifier: the index holds only identifiers with a require entry.
C13_OnlyDeclaredPackages ==
    gmPc = "parsed" => DOMAIN idx \subseteq DeclaredIn(gmItems)
(***************************************************************************)
(* package time: instants and durations                                    *)
(*                                                                         *)
(* A Duration is an int64 count of nanoseconds.  It is kept here as        *)
(* [d, s, n] = d days + s seconds + n nanoseconds with 0 <= s < 86400 and  *)
(* 0 <= n < 10^9, so that the 64-bit range is exact:                       *)
(*   2^63 - 1 ns = 106751 d 85636 s 854775807 ns                           *)
(*   -2^63 ns    = -106752 d + 763 s + 145224192 ns                        *)
(*   2^64 ns     = 213503 d 84873 s 709551616 ns                           *)
(* An instant is the same triple counted from 1970-01-01T00:00:00Z.        *)
(***************************************************************************)
NanosPerSec == 1000000000
SecsPerDay == 86400

Dur(d, s, n) ==
    LET n2 == n % NanosPerSec
        s1 == s + (n - n2) \div NanosPerSec
        s2 == s1 % SecsPerDay
    IN  [d |-> d + (s1 - s2) \div SecsPerDay, s |-> s2, n |-> n2]

DurLess(a, b) ==
    \/ a.d < b.d
    \/ a.d = b.d /\ a.s < b.s
    \/ a.d = b.d /\ a.s = b.s /\ a.n < b.n

DurSub(a, b) == Dur(a.d - b.d, a.s - b.s, a.n - b.n)
DurAdd(a, b) == Dur(a.d + b.d, a.s + b.s, a.n + b.n)

ZeroDuration == [d |-> 0, s |-> 0, n |-> 0]
MaxDuration == [d |-> 106751, s |-> 85636, n |-> 854775807]
MinDuration == [d |-> -106752, s |-> 763, n |-> 145224192]
TwoTo64 == [d |-> 213503, s |-> 84873, n |-> 709551616]

\* the value an int64 holds after an arithmetic result x: x modulo 2^64
RECURSIVE Wrap64(_)
Wrap64(x) ==
    IF DurLess(MaxDuration, x) THEN Wrap64(DurSub(x, TwoTo64))
    ELSE IF DurLess(x, MinDuration) THEN Wrap64(DurAdd(x, TwoTo64))
    ELSE x

\* Time.Sub: t - u, saturated to the Duration range
TimeSub(t, u) ==
    LET x == DurSub(t, u)
    IN  IF DurLess(MaxDuration, x) THEN MaxDuration
        ELSE IF DurLess(x, MinDuration) THEN MinDuration
        ELSE x

\* days from 1970-01-01 to the civil date y-m-d (proleptic Gregorian)
DaysFromCivil(y, m, d) ==
    LET yy == (IF m <= 2 THEN y - 1 ELSE y) + 400
        era == yy \div 400
        yoe == yy - era * 400
        mp == IF m > 2 THEN m - 3 ELSE m + 9
        doy == (153 * mp + 2) \div 5 + d - 1
        doe == yoe * 365 + yoe \div 4 - yoe \div 100 + doy
    IN  (era - 1) * 146097 + doe - 719468

IsLeap(y) == y % 4 = 0 /\ (y % 100 # 0 \/ y % 400 = 0)

DaysIn(m, y) ==
    IF m = 2 THEN (IF IsLeap(y) THEN 29 ELSE 28)
    ELSE IF m \in {4, 6, 9, 11} THEN 30 ELSE 31

Instant(y, m, d, hh, mm, ss, ns) == Dur(DaysFromCivil(y, m, d), hh * 3600 + mm * 60 + ss, ns)

Digits == <<"0", "1", "2", "3", "4", "5", "6", "7", "8", "9">>
IsDigit(c) == \E i \in 1..10 : Digits[i] = c
DigitVal(c) == (CHOOSE i \in 1..10 : Digits[i] = c) - 1

AllDigits(v, from, to) == to <= Len(v) /\ \A i \in from..to : IsDigit(v[i])

RECURSIVE Atoi(_)
Atoi(ds) == IF ds = <<>> THEN 0 ELSE Atoi(SubSeq(ds, 1, Len(ds) - 1)) * 10 + DigitVal(ds[Len(ds)])

RECURSIVE Pow10(_)
Pow10(k) == IF k = 0 THEN 1 ELSE 10 * Pow10(k - 1)

NoTime == [ok |-> FALSE, t |-> ZeroDuration]

\* the zone of a timestamp, from position i to the end: "Z" or +hh:mm / -hh:mm;
\* the result is the offset east of UTC in seconds
ParseZone(v, i) ==
    IF Len(v) = i /\ v[i] = "Z" THEN [ok |-> TRUE, off |-> 0]
    ELSE IF /\ Len(v) = i + 5
            /\ v[i] \in {"+", "-"}
            /\ AllDigits(v, i + 1, i + 2)
            /\ v[i + 3] = ":"
            /\ AllDigits(v, i + 4, i + 5)
         THEN LET hh == Atoi(SubSeq(v, i + 1, i + 2))
                  mm == Atoi(SubSeq(v, i + 4, i + 5))
                  secs == hh * 3600 + mm * 60
              IN  [ok |-> hh <= 24 /\ mm < 60, off |-> IF v[i] = "-" THEN -secs ELSE secs]
    ELSE [ok |-> FALSE, off |-> 0]

\* time.Parse of yyyy-mm-ddThh:mm:ss[.fraction](Z|+hh:mm|-hh:mm).  Both layouts
\* of the code accept the fraction as optional, with up to nine digits read.
ParseTimestamp(v) ==
    IF ~(/\ Len(v) >= 20
         /\ AllDigits(v, 1, 4) /\ v[5] = "-"
         /\ AllDigits(v, 6, 7) /\ v[8] = "-"
         /\ AllDigits(v, 9, 10) /\ v[11] = "T"
         /\ AllDigits(v, 12, 13) /\ v[14] = ":"
         /\ AllDigits(v, 15, 16) /\ v[17] = ":"
         /\ AllDigits(v, 18, 19))
    THEN NoTime
    ELSE LET y == Atoi(SubSeq(v, 1, 4))
             mo == Atoi(SubSeq(v, 6, 7))
             dd == Atoi(SubSeq(v, 9, 10))
             hh == Atoi(SubSeq(v, 12, 13))
             mi == Atoi(SubSeq(v, 15, 16))
             ss == Atoi(SubSeq(v, 18, 19))
             hasFrac == v[20] \in {".", ","} /\ Len(v) >= 21 /\ IsDigit(v[21])
             nonDigit == {i \in 21..Len(v) : ~IsDigit(v[i])}
             fracEnd == IF ~hasFrac THEN 19
                        ELSE IF nonDigit = {} THEN Len(v)
                        ELSE (CHOOSE i \in nonDigit : \A j \in nonDigit : i <= j) - 1
             k == IF hasFrac THEN fracEnd - 20 ELSE 0
             ns == IF hasFrac /\ k <= 9 THEN Atoi(SubSeq(v, 21, fracEnd)) * Pow10(9 - k) ELSE 0
             zone == ParseZone(v, fracEnd + 1)
         IN  IF /\ mo \in 1..12
                /\ dd >= 1 /\ dd <= DaysIn(mo, y)
                /\ hh < 24 /\ mi < 60 /\ ss < 60
                /\ k <= 9
                /\ zone.ok
             THEN [ok |-> TRUE, t |-> DurSub(Instant(y, mo, dd, hh, mi, ss, ns), Dur(0, zone.off, 0))]
             ELSE NoTime

ParseRFC3339Nano(v) == ParseTimestamp(v)
ParseRFC3339(v) == ParseTimestamp(v)

(***************************************************************************)
(* package cooldown                                                        *)
(***************************************************************************)
\* Eligible past its first guard: the cooldown is enabled
eligibleEnabled(ut, days, at) ==
    IF ut = <<>> THEN FALSE
    ELSE LET p1 == ParseRFC3339Nano(ut)
             p == IF p1.ok THEN p1 ELSE ParseRFC3339(ut)
         IN  IF ~p.ok THEN FALSE
             ELSE LET sub == TimeSub(at, p.t)
                      age == IF DurLess(sub, ZeroDuration) THEN ZeroDuration ELSE sub
                      minAge == Wrap64(Dur(days, 0, 0))
                  IN  ~DurLess(age, minAge)

\* a bug at the guard: a cooldown of zero days taken as enabled
EligibleZeroEnabled(ut, days, at) ==
    IF days < 0 THEN TRUE ELSE eligibleEnabled(ut, days, at)

Eligible(ut, days, at) ==
    IF days <= 0 THEN TRUE ELSE eligibleEnabled(ut, days, at)

(***************************************************************************)
(* SpecCooldown: Eligible applied to each timestamp, minDays and now       *)
(***************************************************************************)
TestNow == Instant(2026, 1, 17, 0, 0, 0, 0)
LaterNow == Instant(2026, 1, 17, 0, 0, 0, 1)

Stamp(text, ok, at) == [text |-> text, ok |-> ok, at |-> at]

\* each timestamp text with what it denotes
TimestampDict ==
    { Stamp(<<>>, FALSE, ZeroDuration),
      Stamp(<<"n", "o", "t", "-", "a", "-", "t", "i", "m", "e">>, FALSE, ZeroDuration),
      Stamp(<<"2", "0", "2", "6", "-", "0", "1", "-", "1", "7">>, FALSE, ZeroDuration),
      Stamp(<<"2", "0", "2", "6", "-", "1", "3", "-", "0", "1", "T", "0", "0", ":", "0", "0", ":", "0", "0", "Z">>, FALSE, ZeroDuration),
      Stamp(<<"2", "0", "2", "5", "-", "1", "2", "-", "1", "7", "T", "0", "0", ":", "0", "0", ":", "0", "0", "Z">>, TRUE, Instant(2025, 12, 17, 0, 0, 0, 0)),
      Stamp(<<"2", "0", "2", "5", "-", "1", "2", "-", "1", "8", "T", "0", "0", ":", "0", "0", ":", "0", "0", "Z">>, TRUE, Instant(2025, 12, 18, 0, 0, 0, 0)),
      Stamp(<<"2", "0", "2", "5", "-", "1", "2", "-", "1", "8", "T", "0", "0", ":", "0", "0", ":", "0", "0", ".", "0", "0", "0", "0", "0", "0", "0", "0", "1", "Z">>, TRUE, Instant(2025, 12, 18, 0, 0, 0, 1)),
      Stamp(<<"2", "0", "2", "5", "-", "1", "2", "-", "1", "8", "T", "0", "1", ":", "0", "0", ":", "0", "0", "+", "0", "1", ":", "0", "0">>, TRUE, Instant(2025, 12, 18, 0, 0, 0, 0)),
      Stamp(<<"2", "0", "2", "5", "-", "1", "2", "-", "1", "9", "T", "0", "0", ":", "0", "0", ":", "0", "0", "Z">>, TRUE, Instant(2025, 12, 19, 0, 0, 0, 0)),
      Stamp(<<"2", "0", "2", "6", "-", "0", "1", "-", "1", "7", "T", "0", "0", ":", "0", "0", ":", "0", "0", "Z">>, TRUE, Instant(2026, 1, 17, 0, 0, 0, 0)),
      Stamp(<<"2", "0", "2", "6", "-", "0", "1", "-", "1", "8", "T", "0", "0", ":", "0", "0", ":", "0", "0", "Z">>, TRUE, Instant(2026, 1, 18, 0, 0, 0, 0)),
      Stamp(<<"0", "0", "0", "1", "-", "0", "1", "-", "0", "1", "T", "0", "0", ":", "0", "0", ":", "0", "0", "Z">>, TRUE, Instant(1, 1, 1, 0, 0, 0, 0)) }

Timestamps == {e.text : e \in TimestampDict}
Denotes(text) == CHOOSE e \in TimestampDict : e.text = text

MinDaysSet == {-1, 0, 1, 30, 31, 106751, 106752, 213504}

InitCooldown ==
    /\ updateTime \in Timestamps
    /\ minDays \in MinDaysSet
    /\ now \in {TestNow, LaterNow}
    /\ eligible = FALSE
    /\ cdPc = "start"

CallEligible ==
    /\ cdPc = "start"
    /\ eligible' = Eligible(updateTime, minDays, now)
    /\ cdPc' = "done"
    /\ UNCHANGED <<updateTime, minDays, now>>


\* now - publishTime clamped at zero, as a mathematical (unbounded) quantity
ExactAge(text, at) ==
    LET x == DurSub(at, Denotes(text).at)
    IN  IF DurLess(x, ZeroDuration) THEN ZeroDuration ELSE x

OldEnough(text, days, at) ==
    Denotes(text).ok /\ ~DurLess(ExactAge(text, at), Dur(days, 0, 0))

\* C8: with minDays > 0 the result is true exactly when the timestamp parses
\* and max(0, now - publishTime) >= minDays * 24h, the boundary included.
C8_EligibleIffOldEnough ==
    (cdPc = "done" /\ minDays > 0) =>
        (eligible <=> OldEnough(updateTime, minDays, now))

\* C9: with minDays <= 0 the result is true for every timestamp and every now.
C9_DisabledAlwaysEligible ==
    (cdPc = "done" /\ minDays <= 0) => eligible

\* Eligible has answered true for an unparseable timestamp with minDays = 0
C9_Witness ==
    /\ cdPc = "done"
    /\ minDays = 0
    /\ ~Denotes(updateTime).ok
    /\ eligible
(***************************************************************************)
(* package regexp, for the patterns of Filters: literals, ".", a leading   *)
(* "^", a trailing "$", and the postfix "*" and "+"; an unclosed "(" does  *)
(* not compile.                                                            *)
(***************************************************************************)
RECURSIVE ParenDepth(_, _)
ParenDepth(p, depth) ==
    IF p = <<>> THEN depth
    ELSE IF depth < 0 THEN depth
    ELSE IF Head(p) = "(" THEN ParenDepth(Tail(p), depth + 1)
    ELSE IF Head(p) = ")" THEN ParenDepth(Tail(p), depth - 1)
    ELSE ParenDepth(Tail(p), depth)

\* regexp.Compile: the compiled expression in a one-element sequence, or an error
RegexpCompile(pattern) ==
    IF \/ ParenDepth(pattern, 0) # 0
       \/ (pattern # <<>> /\ Head(pattern) \in {"*", "+"})
    THEN [err |-> TRUE, re |-> <<>>]
    ELSE [err |-> FALSE, re |-> <<pattern>>]

MatchChar(rc, c) == rc = "." \/ rc = c

RECURSIVE MatchHere(_, _)
RECURSIVE MatchStar(_, _, _)

\* re at the start of text
MatchHere(re, text) ==
    IF re = <<>> THEN TRUE
    ELSE IF Len(re) >= 2 /\ re[2] = "*" THEN MatchStar(re[1], Drop(re, 2), text)
    ELSE IF Len(re) >= 2 /\ re[2] = "+"
         THEN text # <<>> /\ MatchChar(re[1], text[1]) /\ MatchStar(re[1], Drop(re, 2), Tail(text))
    ELSE IF re = <<"$">> THEN text = <<>>
    ELSE text # <<>> /\ MatchChar(re[1], text[1]) /\ MatchHere(Tail(re), Tail(text))

\* c* followed by re at the start of text
MatchStar(c, re, text) ==
    \/ MatchHere(re, text)
    \/ text # <<>> /\ MatchChar(c, text[1]) /\ MatchStar(c, re, Tail(text))

\* Regexp.MatchString: the expression matches somewhere in s
MatchString(re, s) ==
    IF re # <<>> /\ Head(re) = "^" THEN MatchHere(Tail(re), s)
    ELSE \E i \in 0..Len(s) : MatchHere(re, Drop(s, i))

(***************************************************************************)
(* package scanner                                                         *)
(*                                                                         *)
(* A Module is [Path, Version, Time, Update, Indirect, FromGoMod]; Update   *)
(* is <<>> (nil) or a one-element sequence holding a Module.  In Options,  *)
(* FilterRegex is <<>> (nil) or <<the compiled pattern>>.                  *)
(***************************************************************************)
ZeroModule ==
    [Path |-> <<>>, Version |-> <<>>, Time |-> <<>>, Update |-> <<>>,
     Indirect |-> FALSE, FromGoMod |-> FALSE]

\* a bug: the manifest marks the module but the reported flag is kept
AnnotateKeepsReported(m, index) ==
    IF m.Path \in DOMAIN index THEN [m EXCEPT !.FromGoMod = TRUE] ELSE m

\* lines 318-321: override the classification from go.mod
Annotate(m, index) ==
    IF m.Path \in DOMAIN index
    THEN [m EXCEPT !.FromGoMod = TRUE, !.Indirect = index[m.Path]]
    ELSE m

\* a bug: the scope test reads the reported flag instead of FromGoMod
InScopeByReportedFlag(m, o) == o.IncludeAll \/ ~m.Indirect

\* line 323, negated: the module is in the scope asked for
InScope(m, o) == o.IncludeAll \/ m.FromGoMod

\* a bug: the regular expression is never consulted
NameMatchSubstringOnly(m, o) == Contains(m.Path, o.Filter)

\* lines 327-330
NameMatch(m, o) ==
    LET match == Contains(m.Path, o.Filter)
    IN  IF ~match /\ o.FilterRegex # <<>>
        THEN MatchString(o.FilterRegex[1], m.Path)
        ELSE match

\* a bug: an update without a publish time skips the cooldown
CooldownPassSkipsEmptyTime(m, o, at) ==
    \/ o.CooldownDays <= 0
    \/ m.Update[1].Time = <<>>
    \/ Eligible(m.Update[1].Time, o.CooldownDays, at)

\* lines 335-339, negated
CooldownPass(m, o, at) ==
    IF o.CooldownDays > 0 THEN Eligible(m.Update[1].Time, o.CooldownDays, at) ELSE TRUE

\* tests 3 to 5 on an annotated module that has an update
Survives(m, o, at) ==
    /\ InScope(m, o)
    /\ (o.Filter # <<>> => NameMatch(m, o))
    /\ CooldownPass(m, o, at)

\* a bug: the nil check is made only on the way into the cooldown test
RECURSIVE AnnotateAndFilterNilCheckInCooldown(_, _, _, _)
AnnotateAndFilterNilCheckInCooldown(mods, index, o, at) ==
    IF mods = <<>> THEN <<>>
    ELSE LET m == Annotate(Head(mods), index)
             rest == AnnotateAndFilterNilCheckInCooldown(Tail(mods), index, o, at)
         IN  IF /\ InScope(m, o)
                /\ (o.Filter # <<>> => NameMatch(m, o))
                /\ (o.CooldownDays > 0 => (m.Update # <<>> /\ CooldownPass(m, o, at)))
             THEN <<m>> \o rest
             ELSE rest

\* a bug: survivors are pushed to the front of out
RECURSIVE AnnotateAndFilterPrepends(_, _, _, _)
AnnotateAndFilterPrepends(mods, index, o, at) ==
    IF mods = <<>> THEN <<>>
    ELSE LET m == Annotate(Head(mods), index)
             rest == AnnotateAndFilterPrepends(Tail(mods), index, o, at)
         IN  IF Head(mods).Update # <<>> /\ Survives(m, o, at)
             THEN rest \o <<m>>
             ELSE rest

RECURSIVE AnnotateAndFilter(_, _, _, _)
AnnotateAndFilter(mods, index, o, at) ==
    IF mods = <<>> THEN <<>>
    ELSE LET rest == AnnotateAndFilter(Tail(mods), index, o, at)
         IN  IF Head(mods).Update = <<>> THEN rest
             ELSE LET m == Annotate(Head(mods), index)
                  IN  IF Survives(m, o, at) THEN <<m>> \o rest ELSE rest

(***************************************************************************)
(* SpecFilter: GetUpdatesFrom from the compilation of the filter on, with  *)
(* the index read from go.mod and the modules decoded from go list given   *)
(***************************************************************************)
MaxModules == 2

PathAB == <<"a", "b">>
PathAPlusB == <<"a", "+", "b">>
ModulePaths == {PathAB, PathAPlusB}

OldTime == <<"2", "0", "2", "5", "-", "1", "2", "-", "1", "7", "T", "0", "0", ":", "0", "0", ":", "0", "0", "Z">>
FreshTime == <<"2", "0", "2", "6", "-", "0", "1", "-", "1", "7", "T", "0", "0", ":", "0", "0", ":", "0", "0", "Z">>

UpdateTo(time) == <<[ZeroModule EXCEPT !.Version = <<"v", "2">>, !.Time = time]>>
Updates == {<<>>, UpdateTo(OldTime), UpdateTo(FreshTime), UpdateTo(<<>>)}

\* the modules go list can report
ReportedModules ==
    { [ZeroModule EXCEPT !.Path = p, !.Version = <<"v", "1">>, !.Update = u, !.Indirect = i] :
        p \in ModulePaths, u \in Updates, i \in BOOLEAN }

ModuleSeqs == UNION {[1..n -> ReportedModules] : n \in 0..MaxModules}

Indexes ==
    { IndexPut(EmptyIndex, PathAB, TRUE),
      IndexPut(IndexPut(EmptyIndex, PathAB, FALSE), PathAPlusB, TRUE) }

\* "^ab" matches "ab" as an expression only; "a+b" is a substring of "a+b"
\* and matches "ab" as an expression; "(" does not compile
Filters == {<<>>, <<"^", "a", "b">>, <<"a", "+", "b">>, <<"(">>}

\* the options app.Run passes: FilterRegex is not set
RunOptions ==
    { [Filter |-> f, FilterRegex |-> <<>>, IncludeAll |-> a, CooldownDays |-> c] :
        f \in Filters, a \in BOOLEAN, c \in {0, 30} }

InitFilter ==
    /\ modules \in ModuleSeqs
    /\ reqIndex \in Indexes
    /\ opts \in RunOptions
    /\ scanNow = TestNow
    /\ out = <<>>
    /\ scanErr = FALSE
    /\ scanPc = "compile"

\* GetUpdatesFrom lines 365-371
CompileFilter ==
    /\ scanPc = "compile"
    /\ IF opts.Filter # <<>> /\ opts.FilterRegex = <<>>
       THEN LET compiled == RegexpCompile(opts.Filter)
            IN  IF compiled.err
                THEN /\ scanErr' = TRUE
                     /\ scanPc' = "returned"
                     /\ opts' = opts
                ELSE /\ opts' = [opts EXCEPT !.FilterRegex = compiled.re]
                     /\ scanPc' = "filter"
                     /\ scanErr' = scanErr
       ELSE /\ scanPc' = "filter"
            /\ UNCHANGED <<opts, scanErr>>
    /\ UNCHANGED <<modules, reqIndex, scanNow, out>>

\* GetUpdatesFrom line 382
CallAnnotateAndFilter ==
    /\ scanPc = "filter"
    /\ out' = AnnotateAndFilter(modules, reqIndex, opts, scanNow)
    /\ scanPc' = "returned"
    /\ UNCHANGED <<modules, reqIndex, opts, scanNow, scanErr>>


Filtered == scanPc = "returned" /\ ~scanErr

\* the input positions whose record has an update
WithUpdate == {i \in 1..Len(modules) : modules[i].Update # <<>>}

\* the fields AnnotateAndFilter never writes
Reported(m) == [Path |-> m.Path, Version |-> m.Version, Time |-> m.Time, Update |-> m.Update]

\* out is the input at the positions pos, in order
IsSelection(pos) ==
    /\ Len(pos) = Len(out)
    /\ \A k \in 1..Len(pos) : pos[k] \in 1..Len(modules)
    /\ \A k \in 1..(Len(pos) - 1) : pos[k] < pos[k + 1]
    /\ \A k \in 1..Len(pos) : Reported(out[k]) = Reported(modules[pos[k]])

Selections == UNION {[1..n -> 1..Len(modules)] : n \in 0..Len(modules)}

\* the name test as documented: substring of the path, or the
\* filter as a regular expression
NameOK(path) ==
    \/ opts.Filter = <<>>
    \/ Contains(path, opts.Filter)
    \/ MatchString(opts.Filter, path)

CooldownOK(m) ==
    opts.CooldownDays > 0 => Eligible(m.Update[1].Time, opts.CooldownDays, scanNow)

InIndex(m) == m.Path \in DOMAIN reqIndex

Surfaced(m) == \E k \in 1..Len(out) : Reported(out[k]) = Reported(m)

RECURSIVE Ascending(_)
Ascending(S) ==
    IF S = {} THEN <<>>
    ELSE LET lo == CHOOSE i \in S : \A j \in S : i <= j
         IN  <<lo>> \o Ascending(S \ {lo})

\* C2: a survivor whose identifier is a key of the index has FromGoMod set and
\* Indirect equal to the index's value, whatever the report said; a survivor
\* whose identifier is not in the index keeps the reported Indirect.
C2_ManifestClassificationWins ==
    Filtered =>
        \E pos \in Selections :
            /\ IsSelection(pos)
            /\ \A k \in 1..Len(out) :
                IF InIndex(out[k])
                THEN out[k].FromGoMod /\ out[k].Indirect = reqIndex[out[k].Path]
                ELSE out[k].Indirect = modules[pos[k]].Indirect

\* the only module reported is reported direct, the index holds it as indirect,
\* and it is returned as indirect
C2_Witness ==
    /\ Filtered
    /\ Len(modules) = 1 /\ Len(out) = 1
    /\ InIndex(out[1])
    /\ ~modules[1].Indirect /\ reqIndex[out[1].Path] /\ out[1].Indirect

\* C3: with IncludeAll unset every returned record is in the index, whatever
\* else holds of a record outside it; with IncludeAll set the records outside
\* the index that pass the other tests are returned as well.
C3_ScopeFollowsIncludeAll ==
    Filtered =>
        /\ ~opts.IncludeAll => \A k \in 1..Len(out) : InIndex(out[k]) /\ out[k].FromGoMod
        /\ IsSelection(Ascending({i \in WithUpdate :
                /\ opts.IncludeAll \/ InIndex(modules[i])
                /\ NameOK(modules[i].Path)
                /\ CooldownOK(modules[i])}))

\* a record outside the index, with an update that passes the name test and
\* the cooldown, is dropped since IncludeAll is unset
C3_Witness ==
    /\ Filtered
    /\ ~opts.IncludeAll
    /\ \E i \in WithUpdate :
        /\ ~InIndex(modules[i])
        /\ opts.Filter # <<>> /\ NameOK(modules[i].Path)
        /\ opts.CooldownDays > 0 /\ CooldownOK(modules[i])
        /\ ~Surfaced(modules[i])

\* C4: no record without an Update is returned, whatever the index and options.
C4_NoUpdateNeverReturned ==
    Filtered => \A k \in 1..Len(out) : out[k].Update # <<>>

\* a record without an update that is in the index is dropped although no
\* filter and no cooldown is set
C4_Witness ==
    /\ Filtered
    /\ opts.Filter = <<>> /\ opts.CooldownDays = 0
    /\ Len(modules) = 2 /\ Len(out) = 1
    /\ modules[1].Update = <<>> /\ InIndex(modules[1])

\* C5: with a filter set, a record that passes the other tests is returned
\* exactly when its identifier contains the filter as a substring or the
\* filter, compiled as a regular expression, matches it.
C5_NameTestSubstringOrRegexp ==
    (Filtered /\ opts.Filter # <<>>) =>
        \A i \in WithUpdate :
            (/\ opts.IncludeAll \/ InIndex(modules[i])
             /\ CooldownOK(modules[i]))
            => (Surfaced(modules[i]) <=>
                    \/ Contains(modules[i].Path, opts.Filter)
                    \/ MatchString(opts.Filter, modules[i].Path))

\* a record returned on the regular expression alone
C5_Witness ==
    /\ Filtered
    /\ opts.Filter # <<>>
    /\ \E k \in 1..Len(out) :
        /\ ~Contains(out[k].Path, opts.Filter)
        /\ MatchString(opts.Filter, out[k].Path)

\* C6: the output is a subsequence of the input: the survivors stand in their
\* input order, each input record is used at most once, and none is invented.
C6_OutputIsSubsequence ==
    Filtered => \E pos \in Selections : IsSelection(pos)

\* two different records returned
C6_Witness ==
    /\ Filtered
    /\ Len(out) = 2
    /\ Reported(out[1]) # Reported(out[2])

\* C7: with CooldownDays > 0 every returned record has a publish time that
\* Eligible accepts at the given now; none has an empty or unparseable one.
C7_ReturnedAreEligible ==
    (Filtered /\ opts.CooldownDays > 0) =>
        \A k \in 1..Len(out) :
            /\ Eligible(out[k].Update[1].Time, opts.CooldownDays, scanNow)
            /\ out[k].Update[1].Time # <<>>
            /\ Denotes(out[k].Update[1].Time).ok

\* under a cooldown one record is returned and one with an empty publish time,
\* in scope, is dropped
C7_Witness ==
    /\ Filtered
    /\ opts.CooldownDays > 0 /\ opts.Filter = <<>>
    /\ Len(out) = 1
    /\ \E i \in WithUpdate :
        /\ modules[i].Update[1].Time = <<>>
        /\ opts.IncludeAll \/ InIndex(modules[i])
        /\ ~Surfaced(modules[i])

(***************************************************************************)
(* package encoding/json, as far as the decoder of DecodeGoListModules     *)
(* goes: objects, arrays, strings without escapes, integers, true, false   *)
(* and null, with JSON white space between tokens.                         *)
(*                                                                         *)
(* A parse result is [ok, val, next]: next is the position after the value.*)
(* A value is a record with a tag t: "object" (members, each [k, v]),      *)
(* "array" (elems), "string" (s), "number", "bool" (b) or "null".          *)
(***************************************************************************)
SkipSpace(v, i) ==
    LET non == {j \in i..Len(v) : ~IsSpace(v[j])}
    IN  IF non = {} THEN Len(v) + 1 ELSE CHOOSE j \in non : \A k \in non : j <= k

JsonNull == [t |-> "null"]
ParseFail == [ok |-> FALSE, val |-> JsonNull, next |-> 0]
Parsed(val, next) == [ok |-> TRUE, val |-> val, next |-> next]

HasAt(v, i, word) == i + Len(word) - 1 <= Len(v) /\ SubSeq(v, i, i + Len(word) - 1) = word

\* v[i] is the opening quote
ParseStringAt(v, i) ==
    LET quotes == {j \in (i + 1)..Len(v) : v[j] = "\""}
        j == CHOOSE q \in quotes : \A r \in quotes : q <= r
    IN  IF quotes = {} THEN ParseFail
        ELSE IF \E k \in (i + 1)..(j - 1) : v[k] \in {"\n", "\t", "\r", "\\"} THEN ParseFail
        ELSE Parsed([t |-> "string", s |-> SubSeq(v, i + 1, j - 1)], j + 1)

\* v[i] is a digit or "-"
ParseNumberAt(v, i) ==
    LET from == IF v[i] = "-" THEN i + 1 ELSE i
        non == {j \in from..Len(v) : ~IsDigit(v[j])}
        to == IF non = {} THEN Len(v) + 1 ELSE CHOOSE j \in non : \A k \in non : j <= k
    IN  IF to = from THEN ParseFail
        ELSE Parsed([t |-> "number"], to)

RECURSIVE ParseValue(_, _)
RECURSIVE ParseMembers(_, _, _)
RECURSIVE ParseElements(_, _, _)

\* the value that starts at or after position from
ParseValue(v, from) ==
    LET i == SkipSpace(v, from)
    IN  IF i > Len(v) THEN ParseFail
        ELSE IF v[i] = "{"
             THEN LET j == SkipSpace(v, i + 1)
                  IN  IF j <= Len(v) /\ v[j] = "}"
                      THEN Parsed([t |-> "object", members |-> <<>>], j + 1)
                      ELSE ParseMembers(v, j, <<>>)
        ELSE IF v[i] = "["
             THEN LET j == SkipSpace(v, i + 1)
                  IN  IF j <= Len(v) /\ v[j] = "]"
                      THEN Parsed([t |-> "array", elems |-> <<>>], j + 1)
                      ELSE ParseElements(v, j, <<>>)
        ELSE IF v[i] = "\"" THEN ParseStringAt(v, i)
        ELSE IF HasAt(v, i, <<"t", "r", "u", "e">>) THEN Parsed([t |-> "bool", b |-> TRUE], i + 4)
        ELSE IF HasAt(v, i, <<"f", "a", "l", "s", "e">>) THEN Parsed([t |-> "bool", b |-> FALSE], i + 5)
        ELSE IF HasAt(v, i, <<"n", "u", "l", "l">>) THEN Parsed(JsonNull, i + 4)
        ELSE IF IsDigit(v[i]) \/ v[i] = "-" THEN ParseNumberAt(v, i)
        ELSE ParseFail

\* the members of an object from the key at position i to the closing brace
ParseMembers(v, i, acc) ==
    IF i > Len(v) \/ v[i] # "\"" THEN ParseFail
    ELSE LET key == ParseStringAt(v, i)
             colon == SkipSpace(v, key.next)
             val == ParseValue(v, colon + 1)
             after == SkipSpace(v, val.next)
             members == Append(acc, [k |-> key.val.s, v |-> val.val])
         IN  IF ~key.ok THEN ParseFail
             ELSE IF colon > Len(v) \/ v[colon] # ":" THEN ParseFail
             ELSE IF ~val.ok THEN ParseFail
             ELSE IF after > Len(v) THEN ParseFail
             ELSE IF v[after] = "," THEN ParseMembers(v, SkipSpace(v, after + 1), members)
             ELSE IF v[after] = "}" THEN Parsed([t |-> "object", members |-> members], after + 1)
             ELSE ParseFail

\* the elements of an array from the value at position i to the closing bracket
ParseElements(v, i, acc) ==
    LET val == ParseValue(v, i)
        after == SkipSpace(v, val.next)
        elems == Append(acc, val.val)
    IN  IF ~val.ok THEN ParseFail
        ELSE IF after > Len(v) THEN ParseFail
        ELSE IF v[after] = "," THEN ParseElements(v, after + 1, elems)
        ELSE IF v[after] = "]" THEN Parsed([t |-> "array", elems |-> elems], after + 1)
        ELSE ParseFail

RECURSIVE UnmarshalModule(_, _)
RECURSIVE UnmarshalMembers(_, _)
RECURSIVE UnmarshalField(_, _, _)

\* json.Unmarshal of a value into the Module m: [err, m].  A value of the wrong
\* type for its field is an error; null leaves the field; a key that names no
\* field of Module is skipped.
UnmarshalModule(val, m) ==
    IF val.t = "null" THEN [err |-> FALSE, m |-> m]
    ELSE IF val.t # "object" THEN [err |-> TRUE, m |-> m]
    ELSE UnmarshalMembers(val.members, m)

UnmarshalMembers(members, m) ==
    IF members = <<>> THEN [err |-> FALSE, m |-> m]
    ELSE LET first == UnmarshalField(m, Head(members).k, Head(members).v)
             rest == UnmarshalMembers(Tail(members), first.m)
         IN  [err |-> first.err \/ rest.err, m |-> rest.m]

UnmarshalField(m, k, val) ==
    IF val.t = "null" /\ k \in {<<"P", "a", "t", "h">>, <<"V", "e", "r", "s", "i", "o", "n">>, <<"T", "i", "m", "e">>, <<"I", "n", "d", "i", "r", "e", "c", "t">>}
    THEN [err |-> FALSE, m |-> m]
    ELSE IF k = <<"P", "a", "t", "h">>
         THEN IF val.t = "string" THEN [err |-> FALSE, m |-> [m EXCEPT !.Path = val.s]]
              ELSE [err |-> TRUE, m |-> m]
    ELSE IF k = <<"V", "e", "r", "s", "i", "o", "n">>
         THEN IF val.t = "string" THEN [err |-> FALSE, m |-> [m EXCEPT !.Version = val.s]]
              ELSE [err |-> TRUE, m |-> m]
    ELSE IF k = <<"T", "i", "m", "e">>
         THEN IF val.t = "string" THEN [err |-> FALSE, m |-> [m EXCEPT !.Time = val.s]]
              ELSE [err |-> TRUE, m |-> m]
    ELSE IF k = <<"I", "n", "d", "i", "r", "e", "c", "t">>
         THEN IF val.t = "bool" THEN [err |-> FALSE, m |-> [m EXCEPT !.Indirect = val.b]]
              ELSE [err |-> TRUE, m |-> m]
    ELSE IF k = <<"U", "p", "d", "a", "t", "e">>
         THEN IF val.t = "null" THEN [err |-> FALSE, m |-> [m EXCEPT !.Update = <<>>]]
              ELSE IF val.t = "object"
                   THEN LET r == UnmarshalModule(val, IF m.Update = <<>> THEN ZeroModule
                                                      ELSE m.Update[1])
                        IN  [err |-> r.err, m |-> [m EXCEPT !.Update = <<r.m>>]]
              ELSE [err |-> TRUE, m |-> m]
    ELSE [err |-> FALSE, m |-> m]

\* Decoder.More at position i: a next character that is neither "]" nor "}"
More(data, i) ==
    LET j == SkipSpace(data, i)
    IN  j <= Len(data) /\ data[j] \notin {"]", "}"}

DecodeResult(err, mods) == [err |-> err, modules |-> mods]

\* a bug: the buffer is taken for one JSON value (json.Unmarshal)
DecodeGoListModulesOneValue(data) ==
    LET r == ParseValue(data, 1)
        u == UnmarshalModule(r.val, ZeroModule)
    IN  IF ~r.ok \/ SkipSpace(data, r.next) <= Len(data) \/ u.err
        THEN DecodeResult(TRUE, <<>>)
        ELSE DecodeResult(FALSE, <<u.m>>)

\* the loop of DecodeGoListModules from position i on, with the modules so far
RECURSIVE DecodeFrom(_, _, _)
DecodeFrom(data, i, mods) ==
    IF ~More(data, i) THEN DecodeResult(FALSE, mods)
    ELSE LET r == ParseValue(data, i)
             u == UnmarshalModule(r.val, ZeroModule)
         IN  IF ~r.ok \/ u.err THEN DecodeResult(TRUE, <<>>)
             ELSE DecodeFrom(data, r.next, Append(mods, u.m))

DecodeGoListModules(data) == DecodeFrom(data, 1, <<>>)

(***************************************************************************)
(* SpecDecode: DecodeGoListModules on buffers written as a run of pieces   *)
(***************************************************************************)
MaxPieces == 2
\* the vulnerabilities in one answer of the service
MaxVulns == 2
\* the calls made on one vulnerability client
MaxChecks == 2
\* the goroutines that call one vulnerability client
MaxCallers == 2
\* the calls they start altogether
MaxStarts == 3
\* the key messages of one interactive session
MaxKeys == 4
\* the packages npm outdated reports
MaxPackages == 2

Quoted(str) == <<"\"">> \o str \o <<"\"">>

\* json.Marshal of a Module, as the tests write the go list stream
RECURSIVE Marshal(_)
Marshal(m) ==
    <<"{", "\"", "P", "a", "t", "h", "\"", ":">> \o Quoted(m.Path)
    \o <<",", "\"", "V", "e", "r", "s", "i", "o", "n", "\"", ":">> \o Quoted(m.Version)
    \o <<",", "\"", "T", "i", "m", "e", "\"", ":">> \o Quoted(m.Time)
    \o <<",", "\"", "U", "p", "d", "a", "t", "e", "\"", ":">> \o (IF m.Update = <<>> THEN <<"n", "u", "l", "l">> ELSE Marshal(m.Update[1]))
    \o <<",", "\"", "I", "n", "d", "i", "r", "e", "c", "t", "\"", ":">> \o (IF m.Indirect THEN <<"t", "r", "u", "e">> ELSE <<"f", "a", "l", "s", "e">>)
    \o <<"}">>

Piece(kind, text, m) == [kind |-> kind, text |-> text, m |-> m]

PlainModule == [ZeroModule EXCEPT !.Path = <<"a">>, !.Version = <<"v", "1">>]
UpdatedModule ==
    [ZeroModule EXCEPT !.Path = <<"b">>, !.Version = <<"v", "1">>, !.Indirect = TRUE,
                       !.Update = <<[ZeroModule EXCEPT !.Version = <<"v", "2">>, !.Time = <<"t">>]>>]

\* kind "module": a JSON object whose members fit the fields of Module, with
\*                the Module it stands for;
\* kind "mistyped": a JSON object with a member of another type than its field;
\* the other kinds are no JSON objects.
Pieces ==
    { Piece("module", Marshal(PlainModule), PlainModule),
      Piece("module", Marshal(UpdatedModule), UpdatedModule),
      Piece("module", <<"{", "\"", "P", "a", "t", "h", "\"", ":", "\"", "c", "\"", ",", "\"", "E", "x", "t", "r", "a", "\"", ":", "[", "1", ",", "{", "\"", "k", "\"", ":", "n", "u", "l", "l", "}", "]", "}">>,
            [ZeroModule EXCEPT !.Path = <<"c">>]),
      Piece("module", <<"{", "\n", "\t", "\"", "P", "a", "t", "h", "\"", ":", " ", "\"", "d", "\"", ",", "\n", "\t", "\"", "V", "e", "r", "s", "i", "o", "n", "\"", ":", " ", "\"", "v", "2", "\"", "\n", "}", "\n">>,
            [ZeroModule EXCEPT !.Path = <<"d">>, !.Version = <<"v", "2">>]),
      Piece("module", <<"{", "}">>, ZeroModule),
      Piece("mistyped", <<"{", "\"", "P", "a", "t", "h", "\"", ":", "1", "}">>, ZeroModule),
      Piece("null", <<"n", "u", "l", "l">>, ZeroModule),
      Piece("truncated", <<"{", "\"", "P", "a", "t", "h", "\"", ":">>, ZeroModule),
      Piece("bracket", <<"]">>, ZeroModule),
      Piece("space", <<" ", "\n">>, ZeroModule) }

PieceSeqs == UNION {[1..n -> Pieces] : n \in 0..MaxPieces}

RECURSIVE Concat(_)
Concat(ps) == IF ps = <<>> THEN <<>> ELSE Head(ps).text \o Concat(Tail(ps))

InitDecode ==
    /\ pieces \in PieceSeqs
    /\ output = Concat(pieces)
    /\ decoded = <<>>
    /\ decodeErr = FALSE
    /\ decPc = "start"

CallDecodeGoListModules ==
    /\ decPc = "start"
    /\ LET r == DecodeGoListModules(output)
       IN  /\ decoded' = r.modules
           /\ decodeErr' = r.err
    /\ decPc' = "done"
    /\ UNCHANGED <<pieces, output>>

AllOfKind(kinds) == \A i \in 1..Len(pieces) : pieces[i].kind \in kinds

\* C10 as stated: a buffer of n >= 0 consecutive valid JSON objects decodes
\* to exactly n records, without an error.
C10_AnyObjectsDecode ==
    (decPc = "done" /\ AllOfKind({"module", "mistyped"})) =>
        (~decodeErr /\ Len(decoded) = Len(pieces))

\* C10 amended: a buffer of n >= 0 consecutive JSON objects whose members fit
\* the fields of Module decodes to exactly those n records, in input order and
\* without an error; the empty buffer gives the empty sequence.
C10_ModuleObjectsDecode ==
    (decPc = "done" /\ AllOfKind({"module"})) =>
        /\ ~decodeErr
        /\ decoded = [i \in 1..Len(pieces) |-> pieces[i].m]

\* two objects, the second with a nested update, decoded in their order
C10_Witness ==
    /\ decPc = "done"
    /\ Len(pieces) = 2 /\ AllOfKind({"module"})
    /\ ~decodeErr
    /\ Len(decoded) = 2
    /\ decoded[1].Path = <<"a">> /\ decoded[2].Path = <<"b">>
    /\ decoded[2].Update # <<>>

\* some piece of the buffer is no JSON object and is not white space
HasForeignPiece == \E i \in 1..Len(pieces) : pieces[i].kind \in {"null", "truncated", "bracket"}

\* C11: a non-empty buffer that is not a run of valid JSON objects gives an
\* error and no records; it is never taken for a shorter or an empty run.
C11_ForeignInputIsAnError ==
    (decPc = "done" /\ output # <<>> /\ HasForeignPiece) =>
        (decodeErr /\ decoded = <<>>)

(***************************************************************************)
(* SpecGetUpdates: GetUpdatesFrom statement by statement, with the go.mod   *)
(* file and the go list command as its environment                         *)
(***************************************************************************)
\* ReadRequireIndex: os.ReadFile, then ParseRequireIndex
ReadRequireIndex(file) ==
    IF ~file.readable THEN [err |-> TRUE, idx |-> EmptyIndex]
    ELSE [err |-> FALSE, idx |-> ParseRequireIndex(file.contents)]

NoError == "nil"
Return(mods, err) == [isNil |-> FALSE, modules |-> mods, err |-> err]
ReturnNil(err) == [isNil |-> TRUE, modules |-> <<>>, err |-> err]
NotReturned == ReturnNil(NoError)

NoLocals == [idx |-> EmptyIndex, output |-> <<>>, modules |-> <<>>]

\* go.mod as TestGetUpdatesFrom writes it: a direct, b indirect
GoModTexts ==
    { <<"m", "o", "d", "u", "l", "e", " ", "m", "\n", "\n", "r", "e", "q", "u", "i", "r", "e", " ", "(", "\n", "\t", "a", " ", "v", "1", "\n", "\t", "b", " ", "v", "1", " ", "/", "/", " ", "i", "n", "d", "i", "r", "e", "c", "t", "\n", ")", "\n">>, <<>> }

GoModFiles == { [readable |-> r, contents |-> t] : r \in BOOLEAN, t \in GoModTexts }

ListedModule(path) ==
    [ZeroModule EXCEPT !.Path = path, !.Version = <<"v", "1">>, !.Update = UpdateTo(OldTime)]

\* the go list stream: updates for a, b and the transitive c; a stream cut
\* short; no output
GoListOutputs ==
    { Marshal(ListedModule(<<"a">>)) \o Marshal(ListedModule(<<"b">>)) \o Marshal(ListedModule(<<"c">>)),
      Marshal(ListedModule(<<"a">>)) \o <<"{", "\"", "P", "a", "t", "h", "\"", ":">>,
      <<>> }

GoLists == { [fails |-> f, output |-> o] : f \in BOOLEAN, o \in GoListOutputs }

GetOptions ==
    { [Filter |-> f, FilterRegex |-> <<>>, IncludeAll |-> a, CooldownDays |-> c] :
        f \in {<<>>, <<"a">>, <<"(">>}, a \in BOOLEAN, c \in {0, 30} }

InitGetUpdates ==
    /\ goModFile \in GoModFiles
    /\ goList \in GoLists
    /\ getOpts \in GetOptions
    /\ getLocals = NoLocals
    /\ getRet = NotReturned
    /\ listCalls = 0
    /\ getPc = "ReadRequireIndex"

\* lines 360-363
GetReadRequireIndex ==
    /\ getPc = "ReadRequireIndex"
    /\ LET r == ReadRequireIndex(goModFile)
       IN  IF r.err
           THEN /\ getRet' = ReturnNil("read")
                /\ getPc' = "returned"
                /\ UNCHANGED getLocals
           ELSE /\ getLocals' = [getLocals EXCEPT !.idx = r.idx]
                /\ getPc' = "Compile"
                /\ UNCHANGED getRet
    /\ UNCHANGED <<goModFile, goList, getOpts, listCalls>>

\* a bug: the filter is not compiled before go list runs
GetCompileSkipped ==
    /\ getPc = "Compile"
    /\ getPc' = "goListAllModulesOutput"
    /\ UNCHANGED <<goModFile, goList, getOpts, getLocals, getRet, listCalls>>

\* lines 365-371
GetCompile ==
    /\ getPc = "Compile"
    /\ IF getOpts.Filter # <<>> /\ getOpts.FilterRegex = <<>>
       THEN LET compiled == RegexpCompile(getOpts.Filter)
            IN  IF compiled.err
                THEN /\ getRet' = ReturnNil("invalid filter pattern")
                     /\ getPc' = "returned"
                     /\ UNCHANGED getOpts
                ELSE /\ getOpts' = [getOpts EXCEPT !.FilterRegex = compiled.re]
                     /\ getPc' = "goListAllModulesOutput"
                     /\ UNCHANGED getRet
       ELSE /\ getPc' = "goListAllModulesOutput"
            /\ UNCHANGED <<getOpts, getRet>>
    /\ UNCHANGED <<goModFile, goList, getLocals, listCalls>>

\* lines 373-376
GetGoList ==
    /\ getPc = "goListAllModulesOutput"
    /\ listCalls' = listCalls + 1
    /\ IF goList.fails
       THEN /\ getRet' = ReturnNil("failed to run go list")
            /\ getPc' = "returned"
            /\ UNCHANGED getLocals
       ELSE /\ getLocals' = [getLocals EXCEPT !.output = goList.output]
            /\ getPc' = "DecodeGoListModules"
            /\ UNCHANGED getRet
    /\ UNCHANGED <<goModFile, goList, getOpts>>

\* a bug: a decode error is swallowed and the run goes on without records
GetDecodeIgnoresError ==
    /\ getPc = "DecodeGoListModules"
    /\ getLocals' = [getLocals EXCEPT !.modules = DecodeGoListModules(getLocals.output).modules]
    /\ getPc' = "AnnotateAndFilter"
    /\ UNCHANGED <<goModFile, goList, getOpts, getRet, listCalls>>

\* lines 378-381
GetDecode ==
    /\ getPc = "DecodeGoListModules"
    /\ LET r == DecodeGoListModules(getLocals.output)
       IN  IF r.err
           THEN /\ getRet' = ReturnNil("failed to decode json")
                /\ getPc' = "returned"
                /\ UNCHANGED getLocals
           ELSE /\ getLocals' = [getLocals EXCEPT !.modules = r.modules]
                /\ getPc' = "AnnotateAndFilter"
                /\ UNCHANGED getRet
    /\ UNCHANGED <<goModFile, goList, getOpts, listCalls>>

\* line 382
GetAnnotateAndFilter ==
    /\ getPc = "AnnotateAndFilter"
    /\ getRet' = Return(AnnotateAndFilter(getLocals.modules, getLocals.idx, getOpts, TestNow), NoError)
    /\ getPc' = "returned"
    /\ UNCHANGED <<goModFile, goList, getOpts, getLocals, listCalls>>


FilterDoesNotCompile == getOpts.Filter # <<>> /\ RegexpCompile(getOpts.Filter).err

\* C14: with a filter that does not compile GetUpdatesFrom never calls the go
\* list command, and it returns an error and no records.
C14_BadFilterFailsFirst ==
    FilterDoesNotCompile =>
        /\ listCalls = 0
        /\ getPc \notin {"goListAllModulesOutput", "DecodeGoListModules", "AnnotateAndFilter"}
        /\ getPc = "returned" => (getRet.err # NoError /\ getRet.isNil)

\* with go.mod readable and a go list that would deliver, the filter "(" ends
\* the call with the filter error
C14_Witness ==
    /\ getPc = "returned"
    /\ goModFile.readable /\ ~goList.fails /\ goList.output # <<>>
    /\ FilterDoesNotCompile
    /\ getRet.err = "invalid filter pattern"

\* C15: when go.mod cannot be read, the go list command fails or its output
\* does not decode, GetUpdatesFrom returns an error and a nil list; when
\* go.mod cannot be read the go list command has not been called.
C15_HardErrorsReturnNil ==
    getPc = "returned" =>
        /\ ~goModFile.readable => (getRet.err = "read" /\ getRet.isNil /\ listCalls = 0)
        /\ (goModFile.readable /\ ~FilterDoesNotCompile /\ goList.fails)
              => (getRet.err = "failed to run go list" /\ getRet.isNil)
        /\ (goModFile.readable /\ ~FilterDoesNotCompile /\ ~goList.fails
               /\ DecodeGoListModules(goList.output).err)
              => (getRet.err = "failed to decode json" /\ getRet.isNil)
        /\ getRet.err # NoError => getRet.isNil

\* the stream is cut short after the record of a: the call ends with the
\* decode error and without that record
C15_Witness ==
    /\ getPc = "returned"
    /\ goModFile.readable /\ ~goList.fails
    /\ Len(goList.output) > Len(Marshal(ListedModule(<<"a">>)))
    /\ getRet.err = "failed to decode json"
    /\ getRet.isNil /\ getRet.modules = <<>>

(***************************************************************************)
(* package strconv and package style                                       *)
(*                                                                         *)
(* An int is kept as its sign and its decimal digits without leading       *)
(* zeros, so that two ints are equal exactly when the records are and the  *)
(* 64-bit range is a comparison of digit strings.                          *)
(***************************************************************************)
\* strings.Count for a separator of one character
Count(s, c) == Cardinality({i \in 1..Len(s) : s[i] = c})

\* strings.IndexAny, counted from 0; -1 when no character of chars is in s
IndexAny(s, chars) ==
    LET hits == {i \in 1..Len(s) : s[i] \in chars}
    IN  IF hits = {} THEN -1 ELSE (CHOOSE i \in hits : \A j \in hits : i <= j) - 1

RECURSIVE StripZeros(_)
StripZeros(ds) ==
    IF Len(ds) > 1 /\ Head(ds) = "0" THEN StripZeros(Tail(ds)) ELSE ds

\* a < b for digit strings of the same length
RECURSIVE DigitsLess(_, _)
DigitsLess(a, b) ==
    IF a = <<>> THEN FALSE
    ELSE IF Head(a) # Head(b) THEN DigitVal(Head(a)) < DigitVal(Head(b))
    ELSE DigitsLess(Tail(a), Tail(b))

MaxInt64Digits == <<"9", "2", "2", "3", "3", "7", "2", "0", "3", "6", "8", "5", "4", "7", "7", "5", "8", "0", "7">>
MinInt64Digits == <<"9", "2", "2", "3", "3", "7", "2", "0", "3", "6", "8", "5", "4", "7", "7", "5", "8", "0", "8">>

\* the magnitude ds fits an int64 of the sign neg
FitsInt64(neg, ds) ==
    LET limit == IF neg THEN MinInt64Digits ELSE MaxInt64Digits
    IN  \/ Len(ds) < Len(limit)
        \/ Len(ds) = Len(limit) /\ ~DigitsLess(limit, ds)

IntZero == [neg |-> FALSE, digits |-> <<"0">>]

\* strconv.Atoi: an optional sign, then decimal digits, within the int range
StrconvAtoi(s) ==
    LET signed == s # <<>> /\ s[1] \in {"+", "-"}
        ds == IF signed THEN Tail(s) ELSE s
        mag == StripZeros(ds)
        neg == signed /\ s[1] = "-" /\ mag # <<"0">>
    IN  IF ds = <<>> \/ (\E i \in 1..Len(ds) : ~IsDigit(ds[i])) \/ ~FitsInt64(neg, mag)
        THEN [err |-> TRUE, n |-> IntZero]
        ELSE [err |-> FALSE, n |-> [neg |-> neg, digits |-> mag]]

SemverFail == [major |-> IntZero, minor |-> IntZero, patch |-> IntZero, ok |-> FALSE]

\* the three numbers of the core, each the result of strconv.Atoi
semverOfNumbers(ma, mi, pa) ==
    IF ma.err \/ mi.err \/ pa.err THEN SemverFail
    ELSE IF ma.n.neg \/ mi.n.neg \/ pa.n.neg THEN SemverFail
    ELSE [major |-> ma.n, minor |-> mi.n, patch |-> pa.n, ok |-> TRUE]

\* the parts of the core between the dots
semverOfParts(parts) ==
    IF Len(parts) < 3 THEN SemverFail
    ELSE semverOfNumbers(StrconvAtoi(parts[1]), StrconvAtoi(parts[2]), StrconvAtoi(parts[3]))

\* u up to the first - or + at index i, all of u when i < 0
semverCoreAt(u, i) == IF i >= 0 THEN SubSeq(u, 1, i) ELSE u

\* t is the trimmed version string
semverOfTrimmed(t, u) ==
    IF t = <<>> THEN SemverFail
    ELSE semverOfParts(Split(semverCoreAt(u, IndexAny(u, {"-", "+"})), "."))

parseSemverCore(v) == semverOfTrimmed(TrimSpace(v), TrimPrefix(TrimSpace(v), <<"v">>))

\* a bug: a pseudo-version is looked for with three hyphens
isPseudoVersionThreeHyphens(v) == Count(v, "-") >= 3

isPseudoVersion(v) == Count(v, "-") >= 2

\* a bug: the minor components are compared before the major ones
minorFirstDiffOf(p1, p2) ==
    IF ~p1.ok \/ ~p2.ok THEN "DiffUnknown"
    ELSE IF p1.minor # p2.minor THEN "DiffMinor"
    ELSE IF p1.major # p2.major THEN "DiffMajor"
    ELSE IF p1.patch # p2.patch THEN "DiffPatch"
    ELSE "DiffSame"

GetDiffTypeMinorFirst(a, b) ==
    IF isPseudoVersion(a) \/ isPseudoVersion(b) THEN "DiffUnknown"
    ELSE IF a = b THEN "DiffSame"
    ELSE minorFirstDiffOf(parseSemverCore(a), parseSemverCore(b))

\* the comparison of two parsed versions, major first
diffOfParsed(p1, p2) ==
    IF ~p1.ok \/ ~p2.ok THEN "DiffUnknown"
    ELSE IF p1.major # p2.major THEN "DiffMajor"
    ELSE IF p1.minor # p2.minor THEN "DiffMinor"
    ELSE IF p1.patch # p2.patch THEN "DiffPatch"
    ELSE "DiffSame"

GetDiffType(a, b) ==
    IF isPseudoVersion(a) \/ isPseudoVersion(b) THEN "DiffUnknown"
    ELSE IF a = b THEN "DiffSame"
    ELSE diffOfParsed(parseSemverCore(a), parseSemverCore(b))

(***************************************************************************)
(* SpecDiff: GetDiffType applied to each pair of version strings           *)
(***************************************************************************)
Ver(text, triple, hyphens) == [text |-> text, triple |-> triple, hyphens |-> hyphens]

\* each version string with the MAJOR.MINOR.PATCH triple it carries once a
\* leading v and the suffix from the first - or + are taken off (<<>> when it
\* carries none), and the number of its hyphens
VersionDict ==
    { Ver(<<"v", "1", ".", "2", ".", "3">>, <<1, 2, 3>>, 0),
      Ver(<<"v", "2", ".", "0", ".", "0">>, <<2, 0, 0>>, 0),
      Ver(<<"v", "1", ".", "3", ".", "0">>, <<1, 3, 0>>, 0),
      Ver(<<"v", "1", ".", "2", ".", "4">>, <<1, 2, 4>>, 0),
      Ver(<<"v", "1", ".", "2", ".", "3", "-", "b", "e", "t", "a", ".", "1">>, <<1, 2, 3>>, 1),
      Ver(<<"v", "1", ".", "2", ".", "3", "+", "m", "e", "t", "a">>, <<1, 2, 3>>, 0),
      Ver(<<"v", "1", ".", "0", "2", ".", "3">>, <<1, 2, 3>>, 0),
      Ver(<<"v", "0", ".", "1", ".", "0">>, <<0, 1, 0>>, 0),
      Ver(<<"v", "0", ".", "2", ".", "0">>, <<0, 2, 0>>, 0),
      Ver(<<"0", ".", "1", ".", "0">>, <<0, 1, 0>>, 0),
      Ver(<<"0", ".", "2", ".", "0">>, <<0, 2, 0>>, 0),
      Ver(<<"v", "1", ".", "2">>, <<>>, 0),
      Ver(<<"v", "1", ".", "2", ".", "x">>, <<>>, 0),
      Ver(<<"a", "b", "c">>, <<>>, 0),
      Ver(<<>>, <<>>, 0),
      Ver(<<"v", "1", ".", "2", ".", "9", "2", "2", "3", "3", "7", "2", "0", "3", "6", "8", "5", "4", "7", "7", "5", "8", "0", "8">>, <<>>, 0),
      Ver(<<"v", "1", ".", "2", ".", "3", "-", "r", "c", "-", "1">>, <<1, 2, 3>>, 2),
      Ver(<<"v", "0", ".", "0", ".", "0", "-", "2", "0", "2", "4", "0", "1", "0", "1", "0", "0", "0", "0", "0", "0", "-", "a", "b", "c", "d", "e", "f">>, <<0, 0, 0>>, 2) }

Versions == {e.text : e \in VersionDict}
Carries(text) == CHOOSE e \in VersionDict : e.text = text

InitDiff ==
    /\ v1 \in Versions
    /\ v2 \in Versions
    /\ diff = "none"
    /\ diffPc = "start"

CallGetDiffType ==
    /\ diffPc = "start"
    /\ diff' = GetDiffType(v1, v2)
    /\ diffPc' = "done"
    /\ UNCHANGED <<v1, v2>>


Clean(text) == Carries(text).triple # <<>> /\ Carries(text).hyphens < 2

\* the class of the first component in which the triples differ
TripleDelta(s, t) ==
    IF s[1] # t[1] THEN "DiffMajor"
    ELSE IF s[2] # t[2] THEN "DiffMinor"
    ELSE IF s[3] # t[3] THEN "DiffPatch"
    ELSE "DiffSame"

\* C16: for two versions that carry a triple and are no pseudo-versions the
\* class is that of the first differing component in the order major, minor,
\* patch, and Same when the triples are equal.
C16_FirstDifferingComponent ==
    (diffPc = "done" /\ Clean(v1) /\ Clean(v2)) =>
        diff = TripleDelta(Carries(v1).triple, Carries(v2).triple)

\* v1.2.3-beta.1 against v1.2.4 is Patch
C16_Witness ==
    /\ diffPc = "done"
    /\ v1 = <<"v", "1", ".", "2", ".", "3", "-", "b", "e", "t", "a", ".", "1">> /\ v2 = <<"v", "1", ".", "2", ".", "4">>
    /\ diff = "DiffPatch"

\* C17: when one of the two strings has two or more hyphens the result is
\* Unknown, whatever numbers they carry and also when they are the same string.
C17_PseudoIsUnknown ==
    (diffPc = "done" /\ (Carries(v1).hyphens >= 2 \/ Carries(v2).hyphens >= 2)) =>
        diff = "DiffUnknown"

\* the same pseudo-version twice
C17_Witness ==
    /\ diffPc = "done"
    /\ v1 = v2 /\ Carries(v1).hyphens >= 2
    /\ diff = "DiffUnknown"

\* C18: when one of the two strings carries no triple the result is Unknown,
\* for every pair of strings.
C18_UnparseableIsUnknown ==
    (diffPc = "done" /\ (Carries(v1).triple = <<>> \/ Carries(v2).triple = <<>>)) =>
        diff = "DiffUnknown"

(***************************************************************************)
(* package format: the group, the label and the sort key of a module       *)
(***************************************************************************)
\* both versions begin with "v0."
BothV0(m) == HasPrefix(m.Version, <<"v", "0", ".">>) /\ HasPrefix(m.Update[1].Version, <<"v", "0", ".">>)

\* the group of module m for the difference d of its versions
groupOfDiff(d, m) ==
    CASE d = "DiffMajor" -> "GroupMajor"
      [] d = "DiffMinor" -> IF BothV0(m) THEN "GroupMajor" ELSE "GroupMinor"
      [] d = "DiffPatch" -> "GroupPatch"
      [] OTHER -> "GroupUnknown"

GroupForModule(m) ==
    IF m.Update = <<>> THEN "GroupUnknown"
    ELSE groupOfDiff(GetDiffType(m.Version, m.Update[1].Version), m)

\* a bug: a minor step between v0 versions is labelled as any other minor step
labelOfDiffWithoutV0(d) ==
    IF d = "DiffMajor" THEN "Major"
    ELSE IF d = "DiffMinor" THEN "Minor"
    ELSE IF d = "DiffPatch" THEN "Patch"
    ELSE "Unknown"

GroupLabelWithoutV0(m) ==
    IF m.Update = <<>> THEN "Unknown"
    ELSE labelOfDiffWithoutV0(GetDiffType(m.Version, m.Update[1].Version))

\* the label of module m for the difference d of its versions
labelOfDiff(d, m) ==
    IF d = "DiffMajor" THEN "Major"
    ELSE IF d = "DiffMinor"
         THEN (IF BothV0(m) THEN "Major (v0)" ELSE "Minor")
    ELSE IF d = "DiffPatch" THEN "Patch"
    ELSE "Unknown"

GroupLabel(m) ==
    IF m.Update = <<>> THEN "Unknown"
    ELSE labelOfDiff(GetDiffType(m.Version, m.Update[1].Version), m)

\* the sort key of group g
sortKeyOfGroup(g) ==
    CASE g = "GroupMajor" -> 0
      [] g = "GroupMinor" -> 1
      [] g = "GroupPatch" -> 2
      [] OTHER -> 3

GroupSortKey(m) == sortKeyOfGroup(GroupForModule(m))

(***************************************************************************)
(* SpecGroup: the three functions applied to one module, in any order      *)
(***************************************************************************)
VersionedModule(version, update) ==
    [ZeroModule EXCEPT !.Version = version, !.Update = update]

FormatModules ==
    { VersionedModule(v, <<>>) : v \in Versions }
        \cup { VersionedModule(v, <<VersionedModule(u, <<>>)>>) : v \in Versions, u \in Versions }

InitGroup ==
    /\ fmtModule \in FormatModules
    /\ group = "none"
    /\ label = "none"
    /\ sortKey = -1
    /\ groupCalls = {}

CallGroupForModule ==
    /\ "GroupForModule" \notin groupCalls
    /\ group' = GroupForModule(fmtModule)
    /\ groupCalls' = groupCalls \cup {"GroupForModule"}
    /\ UNCHANGED <<fmtModule, label, sortKey>>

CallGroupLabel ==
    /\ "GroupLabel" \notin groupCalls
    /\ label' = GroupLabel(fmtModule)
    /\ groupCalls' = groupCalls \cup {"GroupLabel"}
    /\ UNCHANGED <<fmtModule, group, sortKey>>

CallGroupSortKey ==
    /\ "GroupSortKey" \notin groupCalls
    /\ sortKey' = GroupSortKey(fmtModule)
    /\ groupCalls' = groupCalls \cup {"GroupSortKey"}
    /\ UNCHANGED <<fmtModule, group, label>>


Grouped == groupCalls = {"GroupForModule", "GroupLabel", "GroupSortKey"}

\* the version delta of the module passed, when it has an update
Delta == GetDiffType(fmtModule.Version, fmtModule.Update[1].Version)

\* the major component of both versions is 0
BothPreOne ==
    /\ Carries(fmtModule.Version).triple # <<>>
    /\ Carries(fmtModule.Update[1].Version).triple # <<>>
    /\ Carries(fmtModule.Version).triple[1] = 0
    /\ Carries(fmtModule.Update[1].Version).triple[1] = 0

\* C19: a Minor delta between two versions of major component 0 is grouped
\* Major with key 0 and label "Major (v0)"; any other Minor delta is grouped
\* Minor with key 1.
C19_PreOneMinorIsMajor ==
    (Grouped /\ fmtModule.Update # <<>> /\ Delta = "DiffMinor") =>
        IF BothPreOne
        THEN group = "GroupMajor" /\ sortKey = 0 /\ label = "Major (v0)"
        ELSE group = "GroupMinor" /\ sortKey = 1 /\ label = "Minor"

\* C20: the key is 0 exactly for the labels "Major" and "Major (v0)", 1 for
\* "Minor", 2 for "Patch" and 3 for "Unknown"; a module without an update, or
\* with a delta of Same or Unknown, has the label "Unknown" and the key 3.
C20_LabelAndKeyAgree ==
    Grouped =>
        /\ sortKey = 0 <=> label \in {"Major", "Major (v0)"}
        /\ sortKey = 1 <=> label = "Minor"
        /\ sortKey = 2 <=> label = "Patch"
        /\ sortKey = 3 <=> label = "Unknown"
        /\ (fmtModule.Update = <<>> \/ Delta \in {"DiffSame", "DiffUnknown"})
              => (label = "Unknown" /\ sortKey = 3)

\* v0.1.0 with the update v0.2.0: label "Major (v0)" and key 0
C20_Witness ==
    /\ Grouped
    /\ fmtModule.Version = <<"v", "0", ".", "1", ".", "0">>
    /\ fmtModule.Update # <<>> /\ fmtModule.Update[1].Version = <<"v", "0", ".", "2", ".", "0">>
    /\ label = "Major (v0)" /\ sortKey = 0

(***************************************************************************)
(* package format: ParseFlag (format.go 12-41)                             *)
(***************************************************************************)
UpperLetters == <<"A", "B", "C", "D", "E", "F", "G", "H", "I", "J", "K", "L", "M", "N", "O", "P", "Q", "R", "S", "T", "U", "V", "W", "X", "Y", "Z">>
LowerLetters == <<"a", "b", "c", "d", "e", "f", "g", "h", "i", "j", "k", "l", "m", "n", "o", "p", "q", "r", "s", "t", "u", "v", "w", "x", "y", "z">>

\* strings.ToLower on ASCII text
ToLower(s) ==
    [i \in 1..Len(s) |->
        IF \E k \in 1..Len(UpperLetters) : UpperLetters[k] = s[i]
        THEN LowerLetters[CHOOSE k \in 1..Len(UpperLetters) : UpperLetters[k] = s[i]]
        ELSE s[i]]

\* the zero value of format.Options
FormatOptions == [Group |-> FALSE, Lines |-> FALSE, Time |-> FALSE]

UnsupportedFormat == "unsupported --format value"

\* lines 24-40: the loop over the comma-separated parts
RECURSIVE parseFlagParts(_, _)
parseFlagParts(parts, o) ==
    IF parts = <<>> THEN [formats |-> o, err |-> NoError]
    ELSE LET v == ToLower(TrimSpace(Head(parts)))
         IN  IF v = <<>> THEN parseFlagParts(Tail(parts), o)
             ELSE IF v = <<"g", "r", "o", "u", "p">> THEN parseFlagParts(Tail(parts), [o EXCEPT !.Group = TRUE])
             ELSE IF v = <<"l", "i", "n", "e", "s">> THEN parseFlagParts(Tail(parts), [o EXCEPT !.Lines = TRUE])
             ELSE IF v = <<"t", "i", "m", "e">> THEN parseFlagParts(Tail(parts), [o EXCEPT !.Time = TRUE])
             ELSE [formats |-> o, err |-> UnsupportedFormat]

ParseFlag(s) ==
    IF TrimSpace(s) = <<>> THEN [formats |-> FormatOptions, err |-> NoError]
    ELSE parseFlagParts(Split(s, ","), FormatOptions)

(***************************************************************************)
(* package app: Run (app.go 17-278).  A module is the scanner's Module     *)
(* with its two VulnInfo fields.  A dependency of Deps that is a function  *)
(* is <<>> (nil) or a one-element sequence holding what the function       *)
(* returns; Out and StartInteractive are TRUE when they are not nil.  The  *)
(* vulnerability client maps a <<path, version>> pair to the counts and    *)
(* the error CheckModule returns for it.  A styled output line is kept as  *)
(* the values it is rendered from.                                         *)
(***************************************************************************)
ZeroVulnInfo == [Low |-> 0, Medium |-> 0, High |-> 0, Critical |-> 0, Total |-> 0]

AppModule(path, version, update, fromGoMod, indirect) ==
    [Path |-> path, Version |-> version, Time |-> <<>>,
     Update |-> <<[Path |-> path, Version |-> update, Time |-> OldTime, Update |-> <<>>,
                   Indirect |-> FALSE, FromGoMod |-> FALSE,
                   VulnCurrent |-> ZeroVulnInfo, VulnUpdate |-> ZeroVulnInfo]>>,
     Indirect |-> indirect, FromGoMod |-> fromGoMod,
     VulnCurrent |-> ZeroVulnInfo, VulnUpdate |-> ZeroVulnInfo]

CheckModuleCall(path, version) == [fn |-> "CheckModule", path |-> path, version |-> version]

\* lines 39-60: the body of the loop, for one module
checkModuleVulnerabilities(m, vulnClient) ==
    IF m.Update = <<>> THEN [module |-> m, calls |-> <<>>]
    ELSE LET cur == vulnClient[<<m.Path, m.Version>>]
             upd == vulnClient[<<m.Path, m.Update[1].Version>>]
             m1 == IF cur.err = NoError THEN [m EXCEPT !.VulnCurrent = cur.counts] ELSE m
             m2 == IF upd.err = NoError THEN [m1 EXCEPT !.VulnUpdate = upd.counts] ELSE m1
         IN  [module |-> m2,
              calls |-> <<CheckModuleCall(m.Path, m.Version),
                          CheckModuleCall(m.Path, m.Update[1].Version)>>]

\* a bug: the first failed lookup ends the loop
RECURSIVE checkVulnerabilitiesStopsAtError(_, _)
checkVulnerabilitiesStopsAtError(ms, vulnClient) ==
    IF ms = <<>> THEN [modules |-> <<>>, calls |-> <<>>]
    ELSE LET h == checkModuleVulnerabilities(Head(ms), vulnClient)
             failed == /\ Head(ms).Update # <<>>
                       /\ \/ vulnClient[<<Head(ms).Path, Head(ms).Version>>].err # NoError
                          \/ vulnClient[<<Head(ms).Path, Head(ms).Update[1].Version>>].err # NoError
             t == IF failed THEN [modules |-> Tail(ms), calls |-> <<>>]
                  ELSE checkVulnerabilitiesStopsAtError(Tail(ms), vulnClient)
         IN  [modules |-> <<h.module>> \o t.modules, calls |-> h.calls \o t.calls]

\* the modules after the loop, and the CheckModule calls it made
RECURSIVE checkVulnerabilities(_, _)
checkVulnerabilities(ms, vulnClient) ==
    IF ms = <<>> THEN [modules |-> <<>>, calls |-> <<>>]
    ELSE LET h == checkModuleVulnerabilities(Head(ms), vulnClient)
             t == checkVulnerabilities(Tail(ms), vulnClient)
         IN  [modules |-> <<h.module>> \o t.modules, calls |-> h.calls \o t.calls]

IsDirect(m) == m.FromGoMod /\ ~m.Indirect
IsIndirect(m) == m.FromGoMod /\ m.Indirect
IsTransitive(m) == ~m.FromGoMod

groupModules(ms) ==
    [direct |-> SelectSeq(ms, IsDirect),
     indirect |-> SelectSeq(ms, IsIndirect),
     transitive |-> SelectSeq(ms, IsTransitive)]

HasUpdate(m) == m.Update # <<>>

RECURSIVE LinesOf(_)
LinesOf(ms) ==
    IF ms = <<>> THEN <<>>
    ELSE <<[kind |-> "line", text |-> Head(ms).Path \o <<"@">> \o Head(ms).Update[1].Version]>>
             \o LinesOf(Tail(ms))

\* the lines written, each without its newline
printLinesFormat(direct, indirect, transitive, includeAll) ==
    LET all == direct \o indirect \o (IF includeAll THEN transitive ELSE <<>>)
    IN  LinesOf(SelectSeq(all, HasUpdate))

calculateMaxPathLen(direct, indirect, transitive) ==
    LET lens == {Len(m.Path) : m \in {(direct \o indirect \o transitive)[i] :
                                        i \in 1..Len(direct \o indirect \o transitive)}}
    IN  IF lens = {} THEN 0 ELSE CHOOSE n \in lens : \A k \in lens : k <= n

PublishTimeShown(m, showTime) == IF showTime THEN <<m.Update[1].Time>> ELSE <<>>

\* one line of printSimpleOutput: FormatUpdateWithVulns and the publish time
SimpleLine(m, maxPathLen, showVulns, showTime) ==
    [kind |-> "update", Path |-> m.Path, Version |-> m.Version, Update |-> m.Update[1].Version,
     pad |-> maxPathLen,
     vulns |-> IF showVulns THEN <<m.VulnCurrent, m.VulnUpdate>> ELSE <<>>,
     time |-> PublishTimeShown(m, showTime)]

\* one line of printGroupedOutput: FormatUpdate, formatVulnCounts, the publish time
GroupedLine(m, maxPathLen, showVulns, showTime) ==
    [kind |-> "update", Path |-> m.Path, Version |-> m.Version, Update |-> m.Update[1].Version,
     pad |-> maxPathLen,
     vulns |-> IF showVulns /\ m.VulnCurrent.Total > 0 THEN <<m.VulnCurrent, m.VulnUpdate>> ELSE <<>>,
     time |-> PublishTimeShown(m, showTime)]

Heading(text) == [kind |-> "heading", text |-> text]

printSimpleOutput(grp, maxPathLen, showVulns, showTime) ==
    [i \in 1..Len(grp) |-> SimpleLine(grp[i], maxPathLen, showVulns, showTime)]

\* the labels in the order sort.Slice leaves them in: by sort key, then by name
LabelOrder == <<"Major", "Major (v0)", "Minor", "Patch", "Unknown">>

RECURSIVE GroupedFrom(_, _, _, _, _)
GroupedFrom(k, grp, maxPathLen, showVulns, showTime) ==
    IF k > Len(LabelOrder) THEN <<>>
    ELSE LET members == SelectSeq(grp, LAMBDA m : GroupLabel(m) = LabelOrder[k])
             body == [i \in 1..Len(members) |->
                         GroupedLine(members[i], maxPathLen, showVulns, showTime)]
         IN  (IF members = <<>> THEN <<>> ELSE <<Heading(LabelOrder[k])>> \o body)
                 \o GroupedFrom(k + 1, grp, maxPathLen, showVulns, showTime)

printGroupedOutput(grp, maxPathLen, showVulns, showTime) ==
    GroupedFrom(1, grp, maxPathLen, showVulns, showTime)

printGroup(title, grp, maxPathLen, grouped, showVulns, showTime) ==
    IF grp = <<>> THEN <<>>
    ELSE <<Heading(title)>> \o
         (IF grouped THEN printGroupedOutput(grp, maxPathLen, showVulns, showTime)
          ELSE printSimpleOutput(grp, maxPathLen, showVulns, showTime))

\* lines 257-262
PackagesToUpdate(g, all) ==
    g.direct \o g.indirect \o (IF all THEN g.transitive ELSE <<>>)

Banner(text) == [kind |-> "banner", text |-> text]

NoRunLocals ==
    [formats |-> FormatOptions, modules |-> <<>>, packagesToUpdate |-> <<>>]

RunPending == "pending"

\* the modules GetUpdates can report: a and d direct, b indirect, c transitive
ModA == AppModule(<<"a">>, <<"v", "1", ".", "0", ".", "0">>, <<"v", "2", ".", "0", ".", "0">>, TRUE, FALSE)
ModB == AppModule(<<"b">>, <<"v", "1", ".", "0", ".", "0">>, <<"v", "1", ".", "0", ".", "1">>, TRUE, TRUE)
ModC == AppModule(<<"c">>, <<"v", "0", ".", "1", ".", "0">>, <<"v", "0", ".", "2", ".", "0">>, FALSE, TRUE)
ModD == AppModule(<<"d">>, <<"v", "1", ".", "0", ".", "0">>, <<"v", "1", ".", "1", ".", "0">>, TRUE, FALSE)

ReportedLists ==
    { <<>>, <<ModA>>, <<ModC>>, <<ModB, ModA>>, <<ModC, ModB, ModD, ModA>> }

GetUpdatesFailed == "GetUpdates failed"
UpdatePackagesFailed == "UpdatePackages failed"
CheckModuleFailed == "CheckModule failed"

FormatFlags == { <<>>, <<"l", "i", "n", "e", "s">>, <<" ", "G", "r", "o", "u", "p", ",", " ", "t", "i", "m", "e">>, <<"n", "o", "p", "e">> }

RunOptionsSet ==
    [Upgrade : BOOLEAN, Interactive : BOOLEAN, All : BOOLEAN,
     ShowVulnerabilities : BOOLEAN, FormatFlag : FormatFlags,
     Filter : {<<>>}, Cooldown : {0}]

\* the dependencies cmd/root.go passes, with every outcome of the two
\* functions, and the four Deps with one field left nil
FullDeps(ms, getErr, updErr) ==
    [Out |-> TRUE,
     GetUpdates |-> <<[modules |-> ms, err |-> getErr]>>,
     UpdatePackages |-> <<updErr>>,
     StartInteractive |-> TRUE]

DepsSet ==
    { FullDeps(ms, NoError, e) : ms \in ReportedLists, e \in {NoError, UpdatePackagesFailed} }
        \cup { FullDeps(<<>>, GetUpdatesFailed, NoError) }
        \cup { [FullDeps(<<ModB, ModA>>, NoError, NoError) EXCEPT !.Out = FALSE],
               [FullDeps(<<ModB, ModA>>, NoError, NoError) EXCEPT !.GetUpdates = <<>>],
               [FullDeps(<<ModB, ModA>>, NoError, NoError) EXCEPT !.UpdatePackages = <<>>],
               [FullDeps(<<ModB, ModA>>, NoError, NoError) EXCEPT !.StartInteractive = FALSE] }

VulnKeys ==
    UNION { {<<m.Path, m.Version>>, <<m.Path, m.Update[1].Version>>} : m \in {ModA, ModB, ModC, ModD} }

\* what the database knows: one High vulnerability in every v1.0.0
KnownCounts(key) ==
    IF key[2] = <<"v", "1", ".", "0", ".", "0">> THEN [ZeroVulnInfo EXCEPT !.High = 1, !.Total = 1] ELSE ZeroVulnInfo

FailingLookups ==
    { {}, {<<<<"a">>, <<"v", "1", ".", "0", ".", "0">>>>}, {<<<<"a">>, <<"v", "2", ".", "0", ".", "0">>>>, <<<<"b">>, <<"v", "1", ".", "0", ".", "0">>>>}, VulnKeys }

VulnClientFailing(failing) ==
    [key \in VulnKeys |->
        IF key \in failing THEN [counts |-> <<>>, err |-> CheckModuleFailed]
        ELSE [counts |-> KnownCounts(key), err |-> NoError]]

VulnClients == { VulnClientFailing(f) : f \in FailingLookups }

InitRun ==
    /\ runOpts \in RunOptionsSet
    /\ runDeps \in DepsSet
    /\ runVuln \in VulnClients
    /\ runLocals = NoRunLocals
    /\ runCalls = <<>>
    /\ runOut = <<>>
    /\ runRet = RunPending
    /\ runPc = "enter"

\* lines 183-200: the checks of deps, ParseFlag and the first banner
RunEnter ==
    /\ runPc = "enter"
    /\ LET pf == ParseFlag(runOpts.FormatFlag)
       IN  IF ~runDeps.Out
           THEN /\ runRet' = "missing deps.Out" /\ runPc' = "done"
                /\ UNCHANGED <<runLocals, runOut>>
           ELSE IF runDeps.GetUpdates = <<>>
           THEN /\ runRet' = "missing deps.GetUpdates" /\ runPc' = "done"
                /\ UNCHANGED <<runLocals, runOut>>
           ELSE IF pf.err # NoError
           THEN /\ runRet' = pf.err /\ runPc' = "done"
                /\ UNCHANGED <<runLocals, runOut>>
           ELSE /\ runLocals' = [runLocals EXCEPT !.formats = pf.formats]
                /\ runOut' = runOut \o (IF ~pf.formats.Lines
                                        THEN <<Banner("Checking for updates...")>> ELSE <<>>)
                /\ runPc' = "GetUpdates"
                /\ UNCHANGED runRet
    /\ UNCHANGED <<runOpts, runDeps, runVuln, runCalls>>

\* lines 202-216: the call of deps.GetUpdates and the two early returns
RunGetUpdates ==
    /\ runPc = "GetUpdates"
    /\ runCalls' = Append(runCalls,
                      [fn |-> "GetUpdates",
                       arg |-> [Filter |-> runOpts.Filter, IncludeAll |-> runOpts.All,
                                CooldownDays |-> runOpts.Cooldown]])
    /\ LET r == runDeps.GetUpdates[1]
       IN  IF r.err # NoError
           THEN /\ runRet' = r.err /\ runPc' = "done"
                /\ UNCHANGED <<runLocals, runOut>>
           ELSE IF Len(r.modules) = 0
           THEN /\ runOut' = runOut \o
                        (IF ~runLocals.formats.Lines
                         THEN <<Banner("All dependencies match the latest package versions :)")>>
                         ELSE <<>>)
                /\ runRet' = NoError /\ runPc' = "done"
                /\ UNCHANGED runLocals
           ELSE /\ runLocals' = [runLocals EXCEPT !.modules = r.modules]
                /\ runPc' = IF runOpts.ShowVulnerabilities THEN "checkVulnerabilities"
                            ELSE "present"
                /\ UNCHANGED <<runRet, runOut>>
    /\ UNCHANGED <<runOpts, runDeps, runVuln>>

\* lines 219-226
RunCheckVulnerabilities ==
    /\ runPc = "checkVulnerabilities"
    /\ LET c == checkVulnerabilities(runLocals.modules, runVuln)
       IN  /\ runLocals' = [runLocals EXCEPT !.modules = c.modules]
           /\ runCalls' = runCalls \o c.calls
    /\ runOut' = runOut \o (IF ~runLocals.formats.Lines
                            THEN <<Banner("Checking vulnerabilities...")>> ELSE <<>>)
    /\ runPc' = "present"
    /\ UNCHANGED <<runOpts, runDeps, runVuln, runRet>>

\* lines 228-239
RunInteractive ==
    /\ runPc = "present"
    /\ runOpts.Interactive
    /\ LET g == groupModules(runLocals.modules)
       IN  IF ~runDeps.StartInteractive
           THEN /\ runRet' = "missing deps.StartInteractive"
                /\ UNCHANGED runCalls
           ELSE /\ runCalls' = Append(runCalls,
                                 [fn |-> "StartInteractive", direct |-> g.direct,
                                  indirect |-> g.indirect, transitive |-> g.transitive,
                                  arg |-> [FormatGroup |-> runLocals.formats.Group,
                                           FormatTime |-> runLocals.formats.Time]])
                /\ runRet' = NoError
    /\ runPc' = "done"
    /\ UNCHANGED <<runOpts, runDeps, runVuln, runLocals, runOut>>

\* lines 228, 241-244
RunLines ==
    /\ runPc = "present"
    /\ ~runOpts.Interactive
    /\ runLocals.formats.Lines
    /\ LET g == groupModules(runLocals.modules)
       IN  runOut' = runOut \o printLinesFormat(g.direct, g.indirect, g.transitive, runOpts.All)
    /\ runRet' = NoError
    /\ runPc' = "done"
    /\ UNCHANGED <<runOpts, runDeps, runVuln, runLocals, runCalls>>

\* a bug: the listing is followed by the upgrade whether or not it was asked for
RunPrintAlwaysUpgrades ==
    /\ runPc = "present"
    /\ ~runOpts.Interactive
    /\ ~runLocals.formats.Lines
    /\ LET g == groupModules(runLocals.modules)
       IN  runLocals' = [runLocals EXCEPT !.packagesToUpdate = PackagesToUpdate(g, runOpts.All)]
    /\ IF runDeps.UpdatePackages = <<>>
       THEN /\ runRet' = "missing deps.UpdatePackages" /\ runPc' = "done"
       ELSE /\ runPc' = "UpdatePackages" /\ UNCHANGED runRet
    /\ runOut' = Append(runOut, Banner("Available updates:"))
    /\ UNCHANGED <<runOpts, runDeps, runVuln, runCalls>>

\* lines 228, 246-268 and 276-277: the listing, the list to upgrade, and the
\* return of a run without Upgrade or without deps.UpdatePackages
RunPrint ==
    /\ runPc = "present"
    /\ ~runOpts.Interactive
    /\ ~runLocals.formats.Lines
    /\ LET g == groupModules(runLocals.modules)
           f == runLocals.formats
           maxPathLen == calculateMaxPathLen(g.direct, g.indirect, g.transitive)
           listing ==
               <<Banner("Available updates:")>>
                 \o printGroup("Direct dependencies (go.mod)", g.direct, maxPathLen,
                               f.Group, runOpts.ShowVulnerabilities, f.Time)
                 \o printGroup("Indirect dependencies (go.mod // indirect)", g.indirect,
                               maxPathLen, f.Group, runOpts.ShowVulnerabilities, f.Time)
                 \o (IF runOpts.All
                     THEN printGroup("Transitive (not in go.mod)", g.transitive, maxPathLen,
                                     f.Group, runOpts.ShowVulnerabilities, f.Time)
                     ELSE <<>>)
       IN  /\ runLocals' = [runLocals EXCEPT !.packagesToUpdate = PackagesToUpdate(g, runOpts.All)]
           /\ IF runOpts.Upgrade
              THEN IF runDeps.UpdatePackages = <<>>
                   THEN /\ runOut' = runOut \o listing
                        /\ runRet' = "missing deps.UpdatePackages" /\ runPc' = "done"
                   ELSE /\ runOut' = runOut \o listing \o <<Banner("Upgrading...")>>
                        /\ runPc' = "UpdatePackages"
                        /\ UNCHANGED runRet
              ELSE /\ runOut' = runOut \o listing \o
                          <<Banner("Run with -u to upgrade, or -i for interactive mode.")>>
                   /\ runRet' = NoError /\ runPc' = "done"
    /\ UNCHANGED <<runOpts, runDeps, runVuln, runCalls>>

\* lines 269-273: the call of deps.UpdatePackages
RunUpgrade ==
    /\ runPc = "UpdatePackages"
    /\ runCalls' = Append(runCalls, [fn |-> "UpdatePackages", arg |-> runLocals.packagesToUpdate])
    /\ LET err == runDeps.UpdatePackages[1]
       IN  IF err # NoError
           THEN /\ runRet' = err /\ UNCHANGED runOut
           ELSE /\ runRet' = NoError /\ runOut' = Append(runOut, Banner("Done."))
    /\ runPc' = "done"
    /\ UNCHANGED <<runOpts, runDeps, runVuln, runLocals>>

(***************************************************************************)
(* Properties of Run                                                       *)
(***************************************************************************)
RunDone == runPc = "done"

CallsOf(fn) == SelectSeq(runCalls, LAMBDA c : c.fn = fn)

\* what the GetUpdates of this run reports
RunReported == IF runDeps.GetUpdates = <<>> THEN <<>> ELSE runDeps.GetUpdates[1].modules

\* GetUpdates was called and returned at least one module
GotModules ==
    /\ Len(CallsOf("GetUpdates")) = 1
    /\ runDeps.GetUpdates[1].err = NoError
    /\ RunReported # <<>>

PathsOf(ms) == [i \in 1..Len(ms) |-> ms[i].Path]

\* the order of upgrade, read off the reported modules
DirectFirst(all) ==
    PathsOf(SelectSeq(RunReported, LAMBDA m : m.FromGoMod /\ ~m.Indirect))
        \o PathsOf(SelectSeq(RunReported, LAMBDA m : m.FromGoMod /\ m.Indirect))
        \o (IF all THEN PathsOf(SelectSeq(RunReported, LAMBDA m : ~m.FromGoMod)) ELSE <<>>)

\* C21: a run that has returned, with Upgrade set, Interactive not set and at
\* least one module from GetUpdates, has invoked UpdatePackages exactly once,
\* with the direct modules first, then the indirect ones of the manifest, then
\* the transitive ones only when All is set, and has returned the error of
\* UpdatePackages if it failed.
C21_UpgradeOnRequest ==
    (RunDone /\ runOpts.Upgrade /\ ~runOpts.Interactive /\ GotModules) =>
        /\ Len(CallsOf("UpdatePackages")) = 1
        /\ PathsOf(CallsOf("UpdatePackages")[1].arg) = DirectFirst(runOpts.All)
        /\ runDeps.UpdatePackages[1] # NoError => runRet = runDeps.UpdatePackages[1]

\* C22: UpdatePackages is invoked only in a run with Upgrade set in which
\* GetUpdates returned at least one module; a run in which GetUpdates returned
\* no module returns nil and invokes neither UpdatePackages nor
\* StartInteractive; a run with neither Upgrade nor Interactive invokes none of
\* the two.
C22_DryRunUnlessAsked ==
    /\ CallsOf("UpdatePackages") # <<>> => (runOpts.Upgrade /\ GotModules)
    /\ (RunDone /\ Len(CallsOf("GetUpdates")) = 1
              /\ runDeps.GetUpdates[1].err = NoError /\ RunReported = <<>>) =>
           /\ runRet = NoError
           /\ CallsOf("UpdatePackages") = <<>>
           /\ CallsOf("StartInteractive") = <<>>
    /\ (~runOpts.Upgrade /\ ~runOpts.Interactive) =>
           /\ CallsOf("UpdatePackages") = <<>>
           /\ CallsOf("StartInteractive") = <<>>

\* a plain run over two modules has listed them and returned nil, and a run
\* with no module to report has returned nil
C22_Witness ==
    /\ RunDone
    /\ ~runOpts.Upgrade /\ ~runOpts.Interactive
    /\ GotModules /\ Len(RunReported) = 2
    /\ runRet = NoError
    /\ \E i \in 1..Len(runOut) : runOut[i].kind = "update"
    /\ runCalls = CallsOf("GetUpdates")

\* the loop of checkVulnerabilities is behind this run
VulnerabilitiesChecked ==
    /\ runOpts.ShowVulnerabilities
    /\ GotModules
    /\ runPc \in {"present", "UpdatePackages", "done"}

\* the counts a lookup leaves in the module: those of the database, or the
\* zero value when the lookup failed
CountsAfter(path, version) ==
    IF runVuln[<<path, version>>].err = NoError THEN KnownCounts(<<path, version>>)
    ELSE ZeroVulnInfo

\* the module is in what the run shows: a line of the listing, or an argument
\* of StartInteractive
Presented(m) ==
    \/ \E i \in 1..Len(runOut) :
          \/ runOut[i].kind = "update" /\ runOut[i].Path = m.Path
          \/ runOut[i].kind = "line" /\ runOut[i].text = m.Path \o <<"@">> \o m.Update[1].Version
    \/ \E i \in 1..Len(runCalls) :
          /\ runCalls[i].fn = "StartInteractive"
          /\ m \in { (runCalls[i].direct \o runCalls[i].indirect \o runCalls[i].transitive)[k] :
                       k \in 1..Len(runCalls[i].direct \o runCalls[i].indirect
                                      \o runCalls[i].transitive) }

\* C24: after the vulnerability check of a run, whatever lookups failed: the
\* run has not returned the lookup's error; every module carries, for its
\* current and its update version, the counts of the lookup when it succeeded
\* and zero counts when it failed; CheckModule was called for both versions of
\* every module, in order; and in a run that returns nil every module in scope
\* (the transitive ones with All or in interactive mode) is presented.
C24_LookupFailureIsLocal ==
    VulnerabilitiesChecked =>
        /\ runRet # CheckModuleFailed
        /\ Len(runLocals.modules) = Len(RunReported)
        /\ \A i \in 1..Len(RunReported) :
              LET m == runLocals.modules[i]
              IN  /\ m.Path = RunReported[i].Path
                  /\ m.VulnCurrent = CountsAfter(m.Path, m.Version)
                  /\ m.VulnUpdate = CountsAfter(m.Path, m.Update[1].Version)
        /\ Len(CallsOf("CheckModule")) = 2 * Len(RunReported)
        /\ \A i \in 1..Len(RunReported) :
              /\ CallsOf("CheckModule")[2 * i - 1]
                    = CheckModuleCall(RunReported[i].Path, RunReported[i].Version)
              /\ CallsOf("CheckModule")[2 * i]
                    = CheckModuleCall(RunReported[i].Path, RunReported[i].Update[1].Version)
        /\ (RunDone /\ runRet = NoError) =>
              \A i \in 1..Len(RunReported) :
                  (runLocals.modules[i].FromGoMod \/ runOpts.All \/ runOpts.Interactive)
                      => Presented(runLocals.modules[i])

\* the lookup of a's current version failed and that of b's succeeded: the run
\* returned nil, a is listed with zero counts and b with its one High
C24_Witness ==
    /\ VulnerabilitiesChecked /\ RunDone /\ runRet = NoError
    /\ runVuln[<<<<"a">>, <<"v", "1", ".", "0", ".", "0">>>>].err = CheckModuleFailed
    /\ runVuln[<<<<"b">>, <<"v", "1", ".", "0", ".", "0">>>>].err = NoError
    /\ PathsOf(runLocals.modules) = <<<<"b">>, <<"a">>>>
    /\ runLocals.modules[1].VulnCurrent.High = 1
    /\ runLocals.modules[2].VulnCurrent = ZeroVulnInfo
    /\ Presented(runLocals.modules[1]) /\ Presented(runLocals.modules[2])

(***************************************************************************)
(* package updater (updater_test.go 49-93).  runCombinedOutput is the      *)
(* environment: each of the two commands succeeds or fails.                *)
(***************************************************************************)
\* a bug: a module without an update version is written path@
RECURSIVE buildGoGetArgsAlwaysAt(_)
buildGoGetArgsAlwaysAt(ms) ==
    IF ms = <<>> THEN <<<<"g", "e", "t">>>>
    ELSE LET m == ms[Len(ms)]
             v == IF m.Update # <<>> THEN m.Update[1].Version ELSE <<>>
         IN  Append(buildGoGetArgsAlwaysAt(SubSeq(ms, 1, Len(ms) - 1)), m.Path \o <<"@">> \o v)

\* lines 64-74
RECURSIVE buildGoGetArgs(_)
buildGoGetArgs(ms) ==
    IF ms = <<>> THEN <<<<"g", "e", "t">>>>
    ELSE LET m == ms[Len(ms)]
             before == buildGoGetArgs(SubSeq(ms, 1, Len(ms) - 1))
         IN  IF m.Update # <<>> /\ m.Update[1].Version # <<>>
             THEN Append(before, m.Path \o <<"@">> \o m.Update[1].Version)
             ELSE Append(before, m.Path)

GoGetFailed == "go get failed"
GoModTidyFailed == "go mod tidy failed"

UpdaterModules ==
    { [ZeroModule EXCEPT !.Path = p, !.Update = u] :
        p \in {<<"a">>, <<"b">>},
        u \in {<<>>, <<ZeroModule>>, <<[ZeroModule EXCEPT !.Version = <<"v", "1", ".", "2", ".", "3">>]>>} }

UpdaterLists == UNION { [1..n -> UpdaterModules] : n \in 0..MaxModules }

\* what runCombinedOutput answers to go get and to go mod tidy
CommandOutcomes == [get : {NoError, "exit status 1"}, tidy : {NoError, "exit status 1"}]

InitUpdater ==
    /\ updModules \in UpdaterLists
    /\ updEnv \in CommandOutcomes
    /\ updCalls = <<>>
    /\ updRet = RunPending
    /\ updPc = "enter"

\* lines 77-82
UpdEnter ==
    /\ updPc = "enter"
    /\ IF Len(updModules) = 0
       THEN /\ updRet' = NoError /\ updPc' = "done"
       ELSE /\ updPc' = "go get" /\ UNCHANGED updRet
    /\ UNCHANGED <<updModules, updEnv, updCalls>>

\* lines 82-85
UpdGoGet ==
    /\ updPc = "go get"
    /\ updCalls' = Append(updCalls, <<<<"g", "o">>>> \o buildGoGetArgs(updModules))
    /\ IF updEnv.get # NoError
       THEN /\ updRet' = GoGetFailed /\ updPc' = "done"
       ELSE /\ updPc' = "go mod tidy" /\ UNCHANGED updRet
    /\ UNCHANGED <<updModules, updEnv>>

\* lines 88-92
UpdGoModTidy ==
    /\ updPc = "go mod tidy"
    /\ updCalls' = Append(updCalls, <<<<"g", "o">>, <<"m", "o", "d">>, <<"t", "i", "d", "y">>>>)
    /\ updRet' = IF updEnv.tidy # NoError THEN GoModTidyFailed ELSE NoError
    /\ updPc' = "done"
    /\ UNCHANGED <<updModules, updEnv>>

(***************************************************************************)
(* Properties of UpdatePackages                                            *)
(***************************************************************************)
\* the argument the documentation gives for a module
DocumentedArg(m) ==
    IF m.Update # <<>> /\ m.Update[1].Version # <<>>
    THEN m.Path \o <<"@">> \o m.Update[1].Version
    ELSE m.Path

GoGetCommand == <<<<"g", "o">>, <<"g", "e", "t">>>> \o [i \in 1..Len(updModules) |-> DocumentedArg(updModules[i])]
GoModTidyCommand == <<<<"g", "o">>, <<"m", "o", "d">>, <<"t", "i", "d", "y">>>>

\* C23: the commands run so far are a prefix of go get, with one argument per
\* module in list order, followed by go mod tidy; go mod tidy has run only
\* after a go get that succeeded; a call that has returned has run no command
\* for an empty list, go get alone and returned its error when go get failed,
\* both commands otherwise, and has returned an error exactly when one of the
\* commands it ran failed.
C23_CommandOrder ==
    /\ updCalls \in {<<>>, <<GoGetCommand>>, <<GoGetCommand, GoModTidyCommand>>}
    /\ Len(updCalls) = 2 => updEnv.get = NoError
    /\ updPc = "done" =>
          /\ updModules = <<>> => (updCalls = <<>> /\ updRet = NoError)
          /\ (updModules # <<>> /\ updEnv.get # NoError) =>
                (updCalls = <<GoGetCommand>> /\ updRet = GoGetFailed)
          /\ (updModules # <<>> /\ updEnv.get = NoError) =>
                /\ updCalls = <<GoGetCommand, GoModTidyCommand>>
                /\ updRet = IF updEnv.tidy # NoError THEN GoModTidyFailed ELSE NoError

\* a with its update version and b with an empty one: go get a@v1.2.3 b, then
\* go mod tidy, and nil
C23_Witness ==
    /\ updPc = "done" /\ updRet = NoError
    /\ updCalls = << <<<<"g", "o">>, <<"g", "e", "t">>, <<"a", "@", "v", "1", ".", "2", ".", "3">>, <<"b">>>>, <<<<"g", "o">>, <<"m", "o", "d">>, <<"t", "i", "d", "y">>>> >>
    /\ Len(updModules) = 2 /\ updModules[2].Update = <<ZeroModule>>

(***************************************************************************)
(* package vuln (vuln.go).  The answer of the OSV service to one request   *)
(* is the environment: a transport error, a status other than 200, a body  *)
(* that does not decode, or the decoded list of vulnerabilities, each with *)
(* its database_specific.severity and the scores of its severity array.    *)
(***************************************************************************)
\* strings.ToUpper on ASCII text
ToUpper(s) ==
    [i \in 1..Len(s) |->
        IF \E k \in 1..Len(LowerLetters) : LowerLetters[k] = s[i]
        THEN UpperLetters[CHOOSE k \in 1..Len(LowerLetters) : LowerLetters[k] = s[i]]
        ELSE s[i]]

\* strings.SplitN(s, ":", 2)
SplitN2(s) ==
    LET i == Index(s, <<":">>)
    IN  IF i < 0 THEN <<s>> ELSE <<SubSeq(s, 1, i), Drop(s, i + 1)>>

\* lines 215-223: the metrics of the parts from index k on, a later part
\* overwriting an earlier one
RECURSIVE metricsFrom(_, _, _)
metricsFrom(parts, k, metrics) ==
    IF k > Len(parts) THEN metrics
    ELSE LET pair == SplitN2(parts[k])
         IN  IF Len(pair) = 2
             THEN metricsFrom(parts, k + 1,
                      [n \in (DOMAIN metrics) \cup {TrimSpace(pair[1])} |->
                          IF n = TrimSpace(pair[1]) THEN TrimSpace(pair[2]) ELSE metrics[n]])
             ELSE metricsFrom(parts, k + 1, metrics)

ParseCVSSVector(vector) ==
    LET parts == Split(vector, "/")
        startIdx == IF Len(parts) > 0 /\ HasPrefix(parts[1], <<"C", "V", "S", "S", ":">>) THEN 1 ELSE 0
    IN  metricsFrom(parts, startIdx + 1, [n \in {} |-> <<>>])

\* metrics[name], the empty string for a missing key
Metric(metrics, name) == IF name \in DOMAIN metrics THEN metrics[name] ELSE <<>>

\* lines 166-176: the number of impacts that are "H"
highImpactsOf(c, i, a) ==
    (IF c = <<"H">> THEN 1 ELSE 0) + (IF i = <<"H">> THEN 1 ELSE 0) + (IF a = <<"H">> THEN 1 ELSE 0)

\* lines 179-197: the severity for the impacts, their number highImpacts
\* that are "H", and the scope
severityOfImpacts(c, i, a, scope, highImpacts) ==
    IF highImpacts >= 2 \/ (highImpacts >= 1 /\ scope = <<"C">>) THEN <<"C", "R", "I", "T", "I", "C", "A", "L">>
    ELSE IF highImpacts = 1 THEN <<"H", "I", "G", "H">>
    ELSE IF c = <<"M">> \/ i = <<"M">> \/ a = <<"M">> THEN <<"M", "E", "D", "I", "U", "M">>
    ELSE IF c = <<"L">> \/ i = <<"L">> \/ a = <<"L">> THEN <<"L", "O", "W">>
    ELSE <<"M", "E", "D", "I", "U", "M">>

\* lines 156-197, for the metrics of the vector
severityOfMetrics(metrics) ==
    severityOfImpacts(Metric(metrics, <<"C">>), Metric(metrics, <<"I">>), Metric(metrics, <<"A">>),
                      Metric(metrics, <<"S">>),
                      highImpactsOf(Metric(metrics, <<"C">>), Metric(metrics, <<"I">>),
                                    Metric(metrics, <<"A">>)))

ExtractSeverityFromCVSS(cvssScore) ==
    IF cvssScore = <<>> THEN <<"M", "E", "D", "I", "U", "M">>
    ELSE severityOfMetrics(ParseCVSSVector(cvssScore))

\* the zero value of SeverityCounts
SeverityCounts == [Low |-> 0, Medium |-> 0, High |-> 0, Critical |-> 0, Total |-> 0]

\* lines 120-124
severityOf(v) ==
    LET severity == ToUpper(v.Severity)
    IN  IF severity = <<>> /\ Len(v.Scores) > 0
        THEN ExtractSeverityFromCVSS(v.Scores[1])
        ELSE severity

\* a bug: a severity the switch does not know is counted in Total only
countSeverityTotalOnly(c, severity) ==
    IF severity = <<"L", "O", "W">> THEN [c EXCEPT !.Low = @ + 1]
    ELSE IF severity \in {<<"M", "O", "D", "E", "R", "A", "T", "E">>, <<"M", "E", "D", "I", "U", "M">>} THEN [c EXCEPT !.Medium = @ + 1]
    ELSE IF severity = <<"H", "I", "G", "H">> THEN [c EXCEPT !.High = @ + 1]
    ELSE IF severity = <<"C", "R", "I", "T", "I", "C", "A", "L">> THEN [c EXCEPT !.Critical = @ + 1]
    ELSE c

countOneTotalOnly(counts, v) ==
    countSeverityTotalOnly([counts EXCEPT !.Total = @ + 1], severityOf(v))

\* lines 118-137: the body of the loop
\* lines 126-137: the switch on the severity
countSeverity(c, severity) ==
    IF severity = <<"L", "O", "W">> THEN [c EXCEPT !.Low = @ + 1]
    ELSE IF severity \in {<<"M", "O", "D", "E", "R", "A", "T", "E">>, <<"M", "E", "D", "I", "U", "M">>} THEN [c EXCEPT !.Medium = @ + 1]
    ELSE IF severity = <<"H", "I", "G", "H">> THEN [c EXCEPT !.High = @ + 1]
    ELSE IF severity = <<"C", "R", "I", "T", "I", "C", "A", "L">> THEN [c EXCEPT !.Critical = @ + 1]
    ELSE [c EXCEPT !.Medium = @ + 1]

countOne(counts, v) == countSeverity([counts EXCEPT !.Total = @ + 1], severityOf(v))

\* lines 117-138
RECURSIVE countVulns(_, _)
countVulns(counts, vulns) ==
    IF vulns = <<>> THEN counts
    ELSE countVulns(countOne(counts, Head(vulns)), Tail(vulns))

\* line 71
cacheKey(modulePath, version) == modulePath \o <<"@">> \o version

EmptyCache == [k \in {} |-> SeverityCounts]

CachePut(cache, key, counts) ==
    [k \in (DOMAIN cache) \cup {key} |-> IF k = key THEN counts ELSE cache[k]]

\* lines 101-114: the error of a request, nil for an answer that decodes
AnswerError(answer) ==
    CASE answer.kind = "transport error" -> "failed to query OSV API"
      [] answer.kind = "status" -> "OSV API returned status"
      [] answer.kind = "bad body" -> "failed to decode OSV response"
      [] OTHER -> NoError

\* lines 70-146 for one caller: the counts and the error returned, and the
\* cache after the call
\* lines 139-145: the counts are cached and returned
counted(cache, key, counts) ==
    [counts |-> counts, err |-> NoError, cache |-> CachePut(cache, key, counts), asked |-> TRUE]

CheckModule(cache, modulePath, version, answer) ==
    LET key == cacheKey(modulePath, version)
    IN  IF key \in DOMAIN cache
        THEN [counts |-> cache[key], err |-> NoError, cache |-> cache, asked |-> FALSE]
        ELSE IF AnswerError(answer) # NoError
        THEN [counts |-> SeverityCounts, err |-> AnswerError(answer), cache |-> cache,
              asked |-> TRUE]
        ELSE counted(cache, key, countVulns(SeverityCounts, answer.vulns))

Vuln(severity, scores) == [Severity |-> severity, Scores |-> scores]

\* the vulnerabilities of an answer: every spelling of a severity the
\* database uses, an unknown one, and no severity with and without scores
VulnDict ==
    { Vuln(<<"l", "o", "w">>, <<>>), Vuln(<<"M", "O", "D", "E", "R", "A", "T", "E">>, <<>>),
      Vuln(<<"H", "I", "G", "H">>, <<<<"C", "V", "S", "S", ":", "3", ".", "1", "/", "C", ":", "L", "/", "I", ":", "L", "/", "A", ":", "L">>>>), Vuln(<<"c", "r", "i", "t", "i", "c", "a", "l">>, <<>>),
      Vuln(<<"u", "n", "k", "n", "o", "w", "n">>, <<>>), Vuln(<<>>, <<>>), Vuln(<<>>, <<<<>>>>),
      Vuln(<<>>, <<<<"C", "V", "S", "S", ":", "3", ".", "1", "/", "A", "V", ":", "N", "/", "S", ":", "U", "/", "C", ":", "H", "/", "I", ":", "H", "/", "A", ":", "N">>>>),
      Vuln(<<>>, <<<<"C", "V", "S", "S", ":", "3", ".", "1", "/", "S", ":", "C", "/", "C", ":", "L", "/", "I", ":", "L", "/", "A", ":", "H">>>>),
      Vuln(<<>>, <<<<"C", "V", "S", "S", ":", "3", ".", "0", "/", "C", ":", "N", "/", "I", ":", "H", "/", "A", ":", "N", "/", "S", ":", "U">>, <<"C", ":", "L">>>>),
      Vuln(<<>>, <<<<"C", ":", "L", "/", "I", ":", "N", "/", "A", ":", "N">>>>) }

Answer(kind, vulns) == [kind |-> kind, vulns |-> vulns]

VulnLists == UNION { [1..n -> VulnDict] : n \in 0..MaxVulns }

FailedAnswers == { Answer(k, <<>>) : k \in {"transport error", "status", "bad body"} }

\* the pairs looked up
CheckedPairs == { <<<<"a">>, <<"v", "1", ".", "0", ".", "0">>>>, <<<<"a">>, <<"v", "2", ".", "0", ".", "0">>>> }

NoCheck == [path |-> <<>>, version |-> <<>>, answer |-> Answer("none", <<>>),
            counts |-> SeverityCounts, err |-> RunPending, asked |-> FALSE, before |-> EmptyCache]

InitCheckModule ==
    /\ ckDatabase \in VulnLists
    /\ ckCache = EmptyCache
    /\ ckLast = NoCheck
    /\ ckCalls = 0

\* one call of CheckModule on the client; the service answers a request with
\* what the database holds or with a failure
\* what CheckModule returned, r, is recorded with its arguments
CheckModuleReturns(pair, answer, r) ==
    /\ ckCache' = r.cache
    /\ ckLast' = [path |-> pair[1], version |-> pair[2], answer |-> answer,
                  counts |-> r.counts, err |-> r.err, asked |-> r.asked,
                  before |-> ckCache]

CallCheckModule ==
    /\ ckCalls < MaxChecks
    /\ \E pair \in CheckedPairs, answer \in FailedAnswers \cup {Answer("ok", ckDatabase)} :
          CheckModuleReturns(pair, answer, CheckModule(ckCache, pair[1], pair[2], answer))
    /\ ckCalls' = ckCalls + 1
    /\ UNCHANGED ckDatabase

(***************************************************************************)
(* Properties of CheckModule                                               *)
(***************************************************************************)
Balanced(c) == c.Total = c.Low + c.Medium + c.High + c.Critical

\* the severities the database names, whatever their case
NamedLow(v) == v.Severity \in {<<"l", "o", "w">>, <<"L", "O", "W">>}
NamedMedium(v) == v.Severity \in {<<"M", "O", "D", "E", "R", "A", "T", "E">>, <<"m", "o", "d", "e", "r", "a", "t", "e">>, <<"M", "e", "d", "i", "u", "m">>, <<"M", "E", "D", "I", "U", "M">>}
NamedHigh(v) == v.Severity \in {<<"H", "I", "G", "H">>, <<"h", "i", "g", "h">>}
NamedCritical(v) == v.Severity \in {<<"c", "r", "i", "t", "i", "c", "a", "l">>, <<"C", "R", "I", "T", "I", "C", "A", "L">>}

\* a severity that is not one of the names, or neither a name nor a score
UnknownOrMissing(v) ==
    \/ v.Severity # <<>> /\ ~(NamedLow(v) \/ NamedMedium(v) \/ NamedHigh(v) \/ NamedCritical(v))
    \/ v.Severity = <<>> /\ v.Scores = <<>>

HowMany(vulns, Test(_)) == Cardinality({i \in 1..Len(vulns) : Test(vulns[i])})

Checked == ckCalls > 0

\* C30: the counts a call returns, and every entry of the cache, have Total
\* equal to the sum of the four buckets; a lookup that succeeds counts every
\* vulnerability of the answer once in Total and in the bucket its severity
\* names, Medium for an unknown or missing severity; a lookup that fails
\* returns zero counts and leaves the cache as it was.
C30_CountsAddUp ==
    /\ \A k \in DOMAIN ckCache : Balanced(ckCache[k])
    /\ Checked =>
          /\ Balanced(ckLast.counts)
          /\ (ckLast.asked /\ ckLast.err = NoError) =>
                LET vs == ckLast.answer.vulns
                    c == ckLast.counts
                IN  /\ c.Total = Len(vs)
                    /\ c.Low >= HowMany(vs, NamedLow)
                    /\ c.Medium >= HowMany(vs, NamedMedium) + HowMany(vs, UnknownOrMissing)
                    /\ c.High >= HowMany(vs, NamedHigh)
                    /\ c.Critical >= HowMany(vs, NamedCritical)
                    /\ ckCache = CachePut(ckLast.before, cacheKey(ckLast.path, ckLast.version), c)
          /\ ckLast.err # NoError =>
                /\ ckLast.counts = SeverityCounts
                /\ ckCache = ckLast.before

\* after a lookup that counted an unknown severity and a high one, a lookup
\* of the other version fails: zero counts, and the cache keeps its one entry
C30_Witness ==
    /\ Checked
    /\ ckDatabase = <<Vuln(<<"u", "n", "k", "n", "o", "w", "n">>, <<>>), Vuln(<<"H", "I", "G", "H">>, <<<<"C", "V", "S", "S", ":", "3", ".", "1", "/", "C", ":", "L", "/", "I", ":", "L", "/", "A", ":", "L">>>>)>>
    /\ ckLast.err # NoError /\ ckLast.asked
    /\ ckLast.counts = SeverityCounts
    /\ DOMAIN ckCache = {<<"a", "@", "v", "1", ".", "0", ".", "0">>}
    /\ ckCache[<<"a", "@", "v", "1", ".", "0", ".", "0">>] = [Low |-> 0, Medium |-> 1, High |-> 1, Critical |-> 0, Total |-> 2]

(***************************************************************************)
(* RealClient under concurrent callers (vuln.go 28-43, 70-146).  Each      *)
(* caller is a goroutine inside CheckModule; a step is one operation on    *)
(* cacheMu or on the cache map, or the request to the service with the     *)
(* counting of its answer.  vcWritten keeps, for every key, the counts the *)
(* lookups have written, in order.                                         *)
(***************************************************************************)
Callers == 1..MaxCallers

UnlockedMutex == [readers |-> {}, writer |-> <<>>]

NoCall == [pc |-> "idle", path |-> <<>>, version |-> <<>>, counts |-> SeverityCounts,
           err |-> RunPending, asked |-> FALSE, found |-> FALSE, known |-> <<>>]

\* what the service can answer to one request: a failure, no vulnerability,
\* one vulnerability of high severity
ServiceAnswers ==
    { Answer("status", <<>>), Answer("ok", <<>>), Answer("ok", <<Vuln(<<"H", "I", "G", "H">>, <<>>)>>) }

WrittenFor(written, key) == IF key \in DOMAIN written THEN written[key] ELSE <<>>

InitClient ==
    /\ vcCache = EmptyCache
    /\ vcMu = UnlockedMutex
    /\ vcCaller = [c \in Callers |-> NoCall]
    /\ vcWritten = [k \in {} |-> <<>>]
    /\ vcStarts = 0

\* a goroutine calls CheckModule (line 70-71)
VcCall(c) ==
    /\ vcCaller[c].pc \in {"idle", "returned"}
    /\ vcStarts < MaxStarts
    /\ \E pair \in CheckedPairs :
          vcCaller' = [vcCaller EXCEPT ![c] =
              [NoCall EXCEPT !.pc = "RLock", !.path = pair[1], !.version = pair[2],
                             !.known = WrittenFor(vcWritten, cacheKey(pair[1], pair[2]))]]
    /\ vcStarts' = vcStarts + 1
    /\ UNCHANGED <<vcCache, vcMu, vcWritten>>

\* line 74: c.cacheMu.RLock()
VcRLock(c) ==
    /\ vcCaller[c].pc = "RLock"
    /\ vcMu.writer = <<>>
    /\ vcMu' = [vcMu EXCEPT !.readers = @ \cup {c}]
    /\ vcCaller' = [vcCaller EXCEPT ![c].pc = "read"]
    /\ UNCHANGED <<vcCache, vcWritten, vcStarts>>

\* line 75: counts, ok := c.cache[cacheKey]
VcRead(c) ==
    /\ vcCaller[c].pc = "read"
    /\ LET key == cacheKey(vcCaller[c].path, vcCaller[c].version)
       IN  vcCaller' = [vcCaller EXCEPT ![c] =
               IF key \in DOMAIN vcCache
               THEN [@ EXCEPT !.pc = "RUnlock", !.found = TRUE, !.counts = vcCache[key]]
               ELSE [@ EXCEPT !.pc = "RUnlock", !.found = FALSE]]
    /\ UNCHANGED <<vcCache, vcMu, vcWritten, vcStarts>>

\* lines 76-77 and 79: c.cacheMu.RUnlock(), and the return of a hit
VcRUnlock(c) ==
    /\ vcCaller[c].pc = "RUnlock"
    /\ vcMu' = [vcMu EXCEPT !.readers = @ \ {c}]
    /\ vcCaller' = [vcCaller EXCEPT ![c] =
           IF @.found THEN [@ EXCEPT !.pc = "returned", !.err = NoError]
           ELSE [@ EXCEPT !.pc = "query"]]
    /\ UNCHANGED <<vcCache, vcWritten, vcStarts>>

\* lines 81-138: the request, its error returns, and the counting
VcQuery(c) ==
    /\ vcCaller[c].pc = "query"
    /\ \E answer \in ServiceAnswers :
          vcCaller' = [vcCaller EXCEPT ![c] =
              IF AnswerError(answer) # NoError
              THEN [@ EXCEPT !.pc = "returned", !.asked = TRUE, !.counts = SeverityCounts,
                             !.err = AnswerError(answer)]
              ELSE [@ EXCEPT !.pc = "Lock", !.asked = TRUE,
                             !.counts = countVulns(SeverityCounts, answer.vulns)]]
    /\ UNCHANGED <<vcCache, vcMu, vcWritten, vcStarts>>

\* a bug: the entry is written without the lock
VcLockSkipped(c) ==
    /\ vcCaller[c].pc = "Lock"
    /\ vcCaller' = [vcCaller EXCEPT ![c].pc = "write"]
    /\ UNCHANGED <<vcCache, vcMu, vcWritten, vcStarts>>

\* line 141: c.cacheMu.Lock()
VcLock(c) ==
    /\ vcCaller[c].pc = "Lock"
    /\ vcMu.writer = <<>>
    /\ vcMu.readers = {}
    /\ vcMu' = [vcMu EXCEPT !.writer = <<c>>]
    /\ vcCaller' = [vcCaller EXCEPT ![c].pc = "write"]
    /\ UNCHANGED <<vcCache, vcWritten, vcStarts>>

\* line 142: c.cache[cacheKey] = counts
VcWrite(c) ==
    /\ vcCaller[c].pc = "write"
    /\ LET key == cacheKey(vcCaller[c].path, vcCaller[c].version)
       IN  /\ vcCache' = CachePut(vcCache, key, vcCaller[c].counts)
           /\ vcWritten' = [k \in (DOMAIN vcWritten) \cup {key} |->
                               IF k = key THEN Append(WrittenFor(vcWritten, key), vcCaller[c].counts)
                               ELSE vcWritten[k]]
    /\ vcCaller' = [vcCaller EXCEPT ![c].pc = "Unlock"]
    /\ UNCHANGED <<vcMu, vcStarts>>

\* lines 143-145: c.cacheMu.Unlock() and the return
VcUnlock(c) ==
    /\ vcCaller[c].pc = "Unlock"
    /\ vcMu' = [vcMu EXCEPT !.writer = IF @ = <<c>> THEN <<>> ELSE @]
    /\ vcCaller' = [vcCaller EXCEPT ![c].pc = "returned", ![c].err = NoError]
    /\ UNCHANGED <<vcCache, vcWritten, vcStarts>>

Call == \E c \in Callers : VcCall(c)
RLock == \E c \in Callers : VcRLock(c)
ReadCache == \E c \in Callers : VcRead(c)
RUnlock == \E c \in Callers : VcRUnlock(c)
Query == \E c \in Callers : VcQuery(c)
Lock == \E c \in Callers : VcLock(c)
WriteCache == \E c \in Callers : VcWrite(c)
Unlock == \E c \in Callers : VcUnlock(c)

(***************************************************************************)
(* Properties of the client under concurrent callers                       *)
(***************************************************************************)
Running == vcStarts >= 0

\* the caller is at the statement that reads, or writes, the cache map
ReadsMap(c) == vcCaller[c].pc = "read"
WritesMap(c) == vcCaller[c].pc = "write"

\* every access to the map is made under cacheMu, and a write excludes every
\* other access
MapSynchronised ==
    /\ \A c \in Callers : ReadsMap(c) => (c \in vcMu.readers /\ vcMu.writer = <<>>)
    /\ \A c \in Callers : WritesMap(c) => (vcMu.writer = <<c>> /\ vcMu.readers = {})
    /\ \A c, d \in Callers : (c # d /\ WritesMap(c)) => ~(ReadsMap(d) \/ WritesMap(d))

\* the call of c began after a lookup for its pair had succeeded
LaterCall(c) == vcCaller[c].pc = "returned" /\ vcCaller[c].known # <<>>

AllWritten(c) == WrittenFor(vcWritten, cacheKey(vcCaller[c].path, vcCaller[c].version))

\* C25 as stated: the map is only accessed under the lock, and a call that
\* began after a lookup for its pair had succeeded returns, without an error,
\* the counts of that lookup.
C25_SameCountsEverAfter ==
    Running =>
        /\ MapSynchronised
        /\ \A c \in Callers :
              LaterCall(c) =>
                  /\ vcCaller[c].err = NoError
                  /\ vcCaller[c].counts = vcCaller[c].known[1]

\* C25, amended: the map is only accessed under the lock, and a call that
\* began after a lookup for its pair had succeeded returns without an error
\* and without a request counts that a successful lookup for the pair wrote
\* to the cache: the counts of the first lookup unless a lookup of the pair
\* that was in flight with it wrote other counts over them.
C25_LaterCallsHitTheCache ==
    Running =>
        /\ MapSynchronised
        /\ \A c \in Callers :
              LaterCall(c) =>
                  /\ vcCaller[c].err = NoError
                  /\ ~vcCaller[c].asked
                  /\ \E i \in 1..Len(AllWritten(c)) : vcCaller[c].counts = AllWritten(c)[i]
                  /\ (\A i \in 1..Len(AllWritten(c)) : AllWritten(c)[i] = AllWritten(c)[1])
                        => vcCaller[c].counts = vcCaller[c].known[1]

\* a call that began after the one lookup of its pair returned its counts from
\* the cache while the other caller held the read lock as well
C25_Witness ==
    /\ Running
    /\ \E c, d \in Callers :
          /\ c # d
          /\ LaterCall(c) /\ ~vcCaller[c].asked /\ vcCaller[c].counts.High = 1
          /\ Len(AllWritten(c)) = 1
          /\ ReadsMap(d) /\ d \in vcMu.readers

(***************************************************************************)
(* package tui (tui.go).  The program of runProgram delivers key messages  *)
(* to Update until Update returns tea.Quit, or fails.  Indices are those   *)
(* of Go: choices[i] of the code is choices[i + 1] here.                   *)
(***************************************************************************)
\* the rank of a lower-case letter, for the comparison of paths
Ord(ch) == CHOOSE k \in 1..Len(LowerLetters) : LowerLetters[k] = ch

\* a < b for strings of lower-case letters
RECURSIVE TextLess(_, _)
TextLess(a, b) ==
    IF b = <<>> THEN FALSE
    ELSE IF a = <<>> THEN TRUE
    ELSE IF Head(a) # Head(b) THEN Ord(Head(a)) < Ord(Head(b))
    ELSE TextLess(Tail(a), Tail(b))

\* lines 46-52: the less function of the three sorts
lessByKey(k1, k2, m1, m2) == IF k1 # k2 THEN k1 < k2 ELSE TextLess(m1.Path, m2.Path)

GroupLess(m1, m2) == lessByKey(GroupSortKey(m1), GroupSortKey(m2), m1, m2)

\* sort.Slice with GroupLess, for modules of different paths
RECURSIVE SortSlice(_)
SortSlice(ms) ==
    IF ms = <<>> THEN <<>>
    ELSE LET rest == SortSlice(Tail(ms))
             k == Cardinality({i \in 1..Len(rest) : GroupLess(rest[i], Head(ms))})
         IN  SubSeq(rest, 1, k) \o <<Head(ms)>> \o SubSeq(rest, k + 1, Len(rest))

\* lines 44-84
initialModel(direct, indirect, transitive, o) ==
    LET d == IF o.FormatGroup THEN SortSlice(direct) ELSE direct
        i == IF o.FormatGroup THEN SortSlice(indirect) ELSE indirect
        t == IF o.FormatGroup THEN SortSlice(transitive) ELSE transitive
    IN  [choices |-> d \o i \o t, selected |-> {}, cursor |-> 0, quitting |-> FALSE,
         directEnd |-> Len(d), indirectEnd |-> Len(d) + Len(i),
         transitiveOn |-> Len(transitive) > 0, opts |-> o]

\* a bug: q and ctrl+c end the program without marking the model
UpdateQuitUnmarked(m, key) ==
    IF key \in {"ctrl+c", "q", "enter"} THEN [model |-> m, quit |-> TRUE]
    ELSE IF key \in {"up", "k"}
    THEN [model |-> IF m.cursor > 0 THEN [m EXCEPT !.cursor = @ - 1] ELSE m, quit |-> FALSE]
    ELSE IF key \in {"down", "j"}
    THEN [model |-> IF m.cursor < Len(m.choices) - 1 THEN [m EXCEPT !.cursor = @ + 1] ELSE m,
          quit |-> FALSE]
    ELSE IF key \in {" ", "space"}
    THEN [model |-> IF m.cursor \in m.selected
                    THEN [m EXCEPT !.selected = @ \ {m.cursor}]
                    ELSE [m EXCEPT !.selected = @ \cup {m.cursor}],
          quit |-> FALSE]
    ELSE [model |-> m, quit |-> FALSE]

\* lines 90-117, for a key message: the model returned, and whether the
\* command returned is tea.Quit
Update(m, key) ==
    IF key \in {"ctrl+c", "q"} THEN [model |-> [m EXCEPT !.quitting = TRUE], quit |-> TRUE]
    ELSE IF key \in {"up", "k"}
    THEN [model |-> IF m.cursor > 0 THEN [m EXCEPT !.cursor = @ - 1] ELSE m, quit |-> FALSE]
    ELSE IF key \in {"down", "j"}
    THEN [model |-> IF m.cursor < Len(m.choices) - 1 THEN [m EXCEPT !.cursor = @ + 1] ELSE m,
          quit |-> FALSE]
    ELSE IF key \in {" ", "space"}
    THEN [model |-> IF m.cursor \in m.selected
                    THEN [m EXCEPT !.selected = @ \ {m.cursor}]
                    ELSE [m EXCEPT !.selected = @ \cup {m.cursor}],
          quit |-> FALSE]
    ELSE IF key = "enter" THEN [model |-> m, quit |-> TRUE]
    ELSE [model |-> m, quit |-> FALSE]

KeyMessages == {"ctrl+c", "q", "up", "k", "down", "j", " ", "space", "enter", "x"}

ModE == AppModule(<<"e">>, <<"v", "1", ".", "0", ".", "0">>, <<"v", "1", ".", "2", ".", "0">>, TRUE, FALSE)

TuiArguments ==
    [direct : {<<>>, <<ModA>>, <<ModE, ModD>>}, indirect : {<<>>, <<ModB>>},
     transitive : {<<>>, <<ModC>>},
     opts : [FormatGroup : BOOLEAN, FormatTime : {FALSE}]]

NoKey == [key |-> "none", before |-> {}]

\* lines 193-194: the model the program starts from
InitTui ==
    /\ tuiArgs \in TuiArguments
    /\ tuiModel = initialModel(tuiArgs.direct, tuiArgs.indirect, tuiArgs.transitive, tuiArgs.opts)
    /\ tuiLast = NoKey
    /\ tuiKeys = 0
    /\ tuiCalls = <<>>
    /\ tuiPc = "running"

\* the program passes one key message to Update
TuiKey ==
    /\ tuiPc = "running"
    /\ tuiKeys < MaxKeys
    /\ \E key \in KeyMessages :
          LET r == Update(tuiModel, key)
          IN  /\ tuiModel' = r.model
              /\ tuiLast' = [key |-> key, before |-> tuiModel.selected]
              /\ tuiPc' = IF r.quit THEN "ended" ELSE "running"
    /\ tuiKeys' = tuiKeys + 1
    /\ UNCHANGED <<tuiArgs, tuiCalls>>

\* lines 195-198: runProgram returns an error and the process exits
TuiProgramFails ==
    /\ tuiPc = "running"
    /\ tuiPc' = "exited"
    /\ UNCHANGED <<tuiArgs, tuiModel, tuiLast, tuiKeys, tuiCalls>>

\* the orders in which range can visit the keys of the map selected
Orders(S) == { f \in [1..Cardinality(S) -> S] : \A i, j \in DOMAIN f : i # j => f[i] # f[j] }

\* lines 201-217: the selection is applied; choices[i] panics for an index
\* outside the list
TuiApply ==
    /\ tuiPc = "ended"
    /\ IF tuiModel.quitting
       THEN /\ tuiPc' = "returned" /\ UNCHANGED tuiCalls
       ELSE IF \E i \in tuiModel.selected : i < 0 \/ i >= Len(tuiModel.choices)
       THEN /\ tuiPc' = "panic" /\ UNCHANGED tuiCalls
       ELSE /\ \E order \in Orders(tuiModel.selected) :
                  LET toUpdate == [i \in DOMAIN order |-> tuiModel.choices[order[i] + 1]]
                  IN  tuiCalls' = IF Len(toUpdate) > 0 THEN Append(tuiCalls, toUpdate)
                                  ELSE tuiCalls
            /\ tuiPc' = "returned"
    /\ UNCHANGED <<tuiArgs, tuiModel, tuiLast, tuiKeys>>

(***************************************************************************)
(* Properties of the interactive session                                   *)
(***************************************************************************)
TuiStarted == tuiKeys >= 0

ValidIndices == 0..(Len(tuiModel.choices) - 1)

\* the modules at the selected indices
SelectedModules == { tuiModel.choices[i + 1] : i \in tuiModel.selected \cap ValidIndices }

ModulesIn(ms) == { ms[i] : i \in 1..Len(ms) }

EndedWithEnter == tuiLast.key = "enter"

C28_IndicesValid ==
    TuiStarted =>
        /\ tuiModel.cursor \in ValidIndices
        /\ tuiModel.selected \subseteq ValidIndices
        /\ tuiPc # "panic"
        /\ tuiLast.key \in {" ", "space"} =>
              /\ tuiModel.selected \in {tuiLast.before \cup {tuiModel.cursor},
                                        tuiLast.before \ {tuiModel.cursor}}
              /\ tuiModel.selected # tuiLast.before
        /\ tuiModel.choices
              = initialModel(tuiArgs.direct, tuiArgs.indirect, tuiArgs.transitive,
                             tuiArgs.opts).choices

(***************************************************************************)
(* package npm: Scanner.GetUpdates (npm/scanner.go 80-193).  The           *)
(* environment is package.json, the output of npm outdated in the order    *)
(* range visits it, and what fetchPackageTime answers for each package.    *)
(* Each candidate has a goroutine; a step of it is one operation on sem,   *)
(* mu or the slice modules, or the return of fetchPackageTime.             *)
(***************************************************************************)
SemCapacity == 10

\* one entry of npm outdated, with the section of package.json that lists
\* the package ("" for none) and the answer of fetchPackageTime for it
Package(name, current, latest, type, listed, time, fetchErr) ==
    [Name |-> name, Info |-> [Current |-> current, Latest |-> latest, Type |-> type],
     listed |-> listed, time |-> time, fetchErr |-> fetchErr]

\* lines 112-141: the candidate of one entry, <<>> when it is skipped
candidateOf(p, o) ==
    LET isDirect == p.listed = "dependencies"
        isDevDirect == p.listed = "devDependencies"
        depType == IF p.Info.Type # "" THEN p.Info.Type
                   ELSE IF isDirect THEN "dependencies"
                   ELSE IF isDevDirect THEN "devDependencies"
                   ELSE "transitive"
    IN  IF p.Info.Current = p.Info.Latest THEN <<>>
        ELSE IF ~o.IncludeAll /\ depType = "devDependencies" THEN <<>>
        ELSE IF o.Filter # <<>> /\ ~Contains(p.Name, o.Filter) THEN <<>>
        ELSE <<[Name |-> p.Name, Info |-> p.Info, Direct |-> isDirect \/ isDevDirect,
                Type |-> depType, time |-> p.time, fetchErr |-> p.fetchErr]>>

\* lines 108-142
RECURSIVE candidatesOf(_, _)
candidatesOf(entries, o) ==
    IF entries = <<>> THEN <<>>
    ELSE candidateOf(Head(entries), o) \o candidatesOf(Tail(entries), o)

\* lines 158-165: updateTime after the call of fetchPackageTime
updateTimeOf(c) == IF c.fetchErr THEN <<>> ELSE c.time

\* lines 168-172: the goroutine returns without a module
dropped(c, o, at) ==
    o.CooldownDays > 0 /\ updateTimeOf(c) # <<>> /\ ~Eligible(updateTimeOf(c), o.CooldownDays, at)

\* lines 174-183
moduleOf(c) ==
    [Name |-> c.Name, Version |-> c.Info.Current, Direct |-> c.Direct,
     DependencyType |-> c.Type,
     Update |-> [Version |-> c.Info.Latest, Time |-> updateTimeOf(c)]]

NoWorker == [pc |-> "unspawned", seen |-> <<>>]

\* the packages npm outdated can report
PackageDict ==
    { Package(<<"o", "l", "d">>, <<"1", ".", "0", ".", "0">>, <<"2", ".", "0", ".", "0">>, "dependencies", "dependencies", OldTime, FALSE),
      Package(<<"f", "r", "e", "s", "h">>, <<"1", ".", "0", ".", "0">>, <<"2", ".", "0", ".", "0">>, "dependencies", "dependencies", FreshTime, FALSE),
      Package(<<"u", "n", "k", "n", "o", "w", "n">>, <<"1", ".", "0", ".", "0">>, <<"2", ".", "0", ".", "0">>, "", "", <<>>, FALSE),
      Package(<<"f", "a", "i", "l", "i", "n", "g">>, <<"1", ".", "0", ".", "0">>, <<"2", ".", "0", ".", "0">>, "", "dependencies", OldTime, TRUE),
      Package(<<"g", "a", "r", "b", "l", "e", "d">>, <<"1", ".", "0", ".", "0">>, <<"2", ".", "0", ".", "0">>, "", "dependencies", <<"n", "o", "t", "-", "a", "-", "t", "i", "m", "e">>, FALSE),
      Package(<<"s", "a", "m", "e">>, <<"1", ".", "0", ".", "0">>, <<"1", ".", "0", ".", "0">>, "dependencies", "dependencies", OldTime, FALSE),
      Package(<<"d", "e", "v">>, <<"1", ".", "0", ".", "0">>, <<"1", ".", "1", ".", "0">>, "", "devDependencies", OldTime, FALSE) }

\* every order of up to MaxPackages packages
PackageLists ==
    { f \in UNION { [1..n -> PackageDict] : n \in 0..MaxPackages } :
        \A i, j \in DOMAIN f : i # j => f[i] # f[j] }

NpmOptions7 == [IncludeAll |-> FALSE, Filter |-> <<>>, CooldownDays |-> 7]

NpmOptions ==
    { [IncludeAll |-> FALSE, Filter |-> <<>>, CooldownDays |-> 0],
      [IncludeAll |-> FALSE, Filter |-> <<>>, CooldownDays |-> 7],
      [IncludeAll |-> TRUE, Filter |-> <<>>, CooldownDays |-> 7],
      [IncludeAll |-> FALSE, Filter |-> <<"n">>, CooldownDays |-> 7] }

\* registry is how the npm registry answers: "prompt" at any moment, "slow"
\* only when the scanner can send no further request
Scenario(readable, outdated, entries, o, registry) ==
    [readable |-> readable, output |-> outdated, entries |-> entries, opts |-> o,
     registry |-> registry]

\* one package more than the semaphore has tokens: the first old, the
\* others fresh
FullPool ==
    [i \in 1..(SemCapacity + 1) |->
        Package(<<"f">> \o <<LowerLetters[i]>>, <<"1", ".", "0", ".", "0">>, <<"2", ".", "0", ".", "0">>, "dependencies",
                "dependencies", IF i = 1 THEN OldTime ELSE FreshTime, FALSE)]

NpmScenarios ==
    { Scenario(TRUE, "json", l, o, "prompt") : l \in PackageLists, o \in NpmOptions }
        \cup { Scenario(FALSE, "json", <<>>, NpmOptions7, "prompt"),
               Scenario(TRUE, "failed", <<>>, NpmOptions7, "prompt"),
               Scenario(TRUE, "empty", <<>>, NpmOptions7, "prompt"),
               Scenario(TRUE, "garbage", <<>>, NpmOptions7, "prompt"),
               Scenario(TRUE, "json", FullPool, NpmOptions7, "slow") }

InitNpm ==
    /\ npmEnv \in NpmScenarios
    /\ npmCandidates = <<>>
    /\ npmWorker = <<>>
    /\ npmSem = 0
    /\ npmMu = <<>>
    /\ npmWg = 0
    /\ npmModules = <<>>
    /\ npmRet = NotReturned
    /\ npmPc = "enter"

\* lines 82-148: package.json, npm outdated, the candidates
NpmPrepare ==
    /\ npmPc = "enter"
    /\ IF ~npmEnv.readable
       THEN /\ npmRet' = ReturnNil("failed to read package.json") /\ npmPc' = "returned"
            /\ UNCHANGED <<npmCandidates, npmWorker>>
       ELSE IF npmEnv.output = "failed"
       THEN /\ npmRet' = ReturnNil("failed to run npm outdated") /\ npmPc' = "returned"
            /\ UNCHANGED <<npmCandidates, npmWorker>>
       ELSE IF npmEnv.output = "empty"
       THEN /\ npmRet' = Return(<<>>, NoError) /\ npmPc' = "returned"
            /\ UNCHANGED <<npmCandidates, npmWorker>>
       ELSE IF npmEnv.output # "json"
       THEN /\ npmRet' = ReturnNil("failed to parse npm outdated output")
            /\ npmPc' = "returned"
            /\ UNCHANGED <<npmCandidates, npmWorker>>
       ELSE /\ npmCandidates' = candidatesOf(npmEnv.entries, npmEnv.opts)
            /\ npmWorker' = [i \in 1..Len(candidatesOf(npmEnv.entries, npmEnv.opts)) |-> NoWorker]
            /\ npmPc' = "spawn"
            /\ UNCHANGED npmRet
    /\ UNCHANGED <<npmEnv, npmSem, npmMu, npmWg, npmModules>>

Spawned == {i \in DOMAIN npmWorker : npmWorker[i].pc # "unspawned"}

\* lines 150-152: wg.Add(1) and the go statement for the next candidate
NpmSpawn ==
    /\ npmPc = "spawn"
    /\ Cardinality(Spawned) < Len(npmCandidates)
    /\ npmWg' = npmWg + 1
    /\ npmWorker' = [npmWorker EXCEPT ![Cardinality(Spawned) + 1].pc = "acquire"]
    /\ UNCHANGED <<npmEnv, npmCandidates, npmSem, npmMu, npmModules, npmRet, npmPc>>

\* lines 155-161: sem <- struct{}{} and the call of fetchPackageTime
NpmAcquire(i) ==
    /\ npmWorker[i].pc = "acquire"
    /\ npmSem < SemCapacity
    /\ npmSem' = npmSem + 1
    /\ npmWorker' = [npmWorker EXCEPT ![i].pc =
           IF npmCandidates[i].Info.Latest # <<>> THEN "fetch" ELSE "fetched"]
    /\ UNCHANGED <<npmEnv, npmCandidates, npmMu, npmWg, npmModules, npmRet, npmPc>>

\* no goroutine is about to call fetchPackageTime, or sem is full
CannotSend ==
    \/ npmSem >= SemCapacity
    \/ \A i \in DOMAIN npmWorker : npmWorker[i].pc \notin {"unspawned", "acquire"}

\* lines 161-172: fetchPackageTime returns; the cooldown; a dropped package
\* ends the goroutine through the deferred receive from sem and wg.Done()
NpmFetched(i) ==
    /\ npmWorker[i].pc \in {"fetch", "fetched"}
    /\ npmWorker[i].pc = "fetch" /\ npmEnv.registry = "slow" => CannotSend
    /\ IF dropped(npmCandidates[i], npmEnv.opts, TestNow)
       THEN /\ npmSem' = npmSem - 1
            /\ npmWg' = npmWg - 1
            /\ npmWorker' = [npmWorker EXCEPT ![i].pc = "done"]
       ELSE /\ npmWorker' = [npmWorker EXCEPT ![i].pc = "lock"]
            /\ UNCHANGED <<npmSem, npmWg>>
    /\ UNCHANGED <<npmEnv, npmCandidates, npmMu, npmModules, npmRet, npmPc>>

\* a bug: the slice is appended to without the mutex
NpmLockSkipped(i) ==
    /\ npmWorker[i].pc = "lock"
    /\ npmWorker' = [npmWorker EXCEPT ![i].pc = "append"]
    /\ UNCHANGED <<npmEnv, npmCandidates, npmSem, npmMu, npmWg, npmModules, npmRet, npmPc>>

\* line 185: mu.Lock()
NpmLock(i) ==
    /\ npmWorker[i].pc = "lock"
    /\ npmMu = <<>>
    /\ npmMu' = <<i>>
    /\ npmWorker' = [npmWorker EXCEPT ![i].pc = "append"]
    /\ UNCHANGED <<npmEnv, npmCandidates, npmSem, npmWg, npmModules, npmRet, npmPc>>

\* line 186, first half: append reads the slice
NpmAppendRead(i) ==
    /\ npmWorker[i].pc = "append"
    /\ npmWorker' = [npmWorker EXCEPT ![i].pc = "store", ![i].seen = npmModules]
    /\ UNCHANGED <<npmEnv, npmCandidates, npmSem, npmMu, npmWg, npmModules, npmRet, npmPc>>

\* line 186, second half: the extended slice is assigned to modules
NpmAppendStore(i) ==
    /\ npmWorker[i].pc = "store"
    /\ npmModules' = Append(npmWorker[i].seen, moduleOf(npmCandidates[i]))
    /\ npmWorker' = [npmWorker EXCEPT ![i].pc = "unlock", ![i].seen = <<>>]
    /\ UNCHANGED <<npmEnv, npmCandidates, npmSem, npmMu, npmWg, npmRet, npmPc>>

\* lines 187-188: mu.Unlock(), the deferred receive from sem and wg.Done()
NpmUnlock(i) ==
    /\ npmWorker[i].pc = "unlock"
    /\ npmMu' = IF npmMu = <<i>> THEN <<>> ELSE npmMu
    /\ npmSem' = npmSem - 1
    /\ npmWg' = npmWg - 1
    /\ npmWorker' = [npmWorker EXCEPT ![i].pc = "done"]
    /\ UNCHANGED <<npmEnv, npmCandidates, npmModules, npmRet, npmPc>>

\* lines 191-192: wg.Wait() after the loop, and the return
NpmWait ==
    /\ npmPc = "spawn"
    /\ Cardinality(Spawned) = Len(npmCandidates)
    /\ npmWg = 0
    /\ npmRet' = Return(npmModules, NoError)
    /\ npmPc' = "returned"
    /\ UNCHANGED <<npmEnv, npmCandidates, npmWorker, npmSem, npmMu, npmWg, npmModules>>

Acquire == \E i \in DOMAIN npmWorker : NpmAcquire(i)
Fetched == \E i \in DOMAIN npmWorker : NpmFetched(i)
LockModules == \E i \in DOMAIN npmWorker : NpmLock(i)
AppendRead == \E i \in DOMAIN npmWorker : NpmAppendRead(i)
AppendStore == \E i \in DOMAIN npmWorker : NpmAppendStore(i)
UnlockModules == \E i \in DOMAIN npmWorker : NpmUnlock(i)

NpmReturned == npmPc = "returned"
NpmCooldown == npmEnv.opts.CooldownDays
Returns == {npmRet.modules[j] : j \in DOMAIN npmRet.modules}

\* C27: when GetUpdates has returned under a cooldown of some days, the
\* publish time of every returned package is determined and lies at least
\* that many days back; no returned package is younger or without a publish
\* time.
C27_OnlyCooledDown ==
    NpmReturned /\ NpmCooldown > 0 =>
        \A m \in Returns :
            /\ m.Update.Time # <<>>
            /\ Eligible(m.Update.Time, NpmCooldown, TestNow)

InFlight == {i \in DOMAIN npmWorker : npmWorker[i].pc = "fetch"}
Finished == {i \in DOMAIN npmWorker : npmWorker[i].pc = "done"}
Kept == {i \in DOMAIN npmCandidates : ~dropped(npmCandidates[i], npmEnv.opts, TestNow)}
TimesReturned(m) == Cardinality({j \in DOMAIN npmRet.modules : npmRet.modules[j] = m})

\* C29: in every state of every interleaving, at most SemCapacity calls of
\* fetchPackageTime are in flight; and when GetUpdates has returned a list,
\* every goroutine has finished and the list holds the module of every
\* candidate the cooldown did not drop exactly once, and nothing else.
C29_WorkerPool ==
    /\ Cardinality(InFlight) <= SemCapacity
    /\ NpmReturned /\ ~npmRet.isNil /\ npmEnv.output = "json" =>
        /\ Finished = DOMAIN npmCandidates
        /\ Len(npmRet.modules) = Cardinality(Kept)
        /\ \A i \in Kept : TimesReturned(moduleOf(npmCandidates[i])) = 1

\* C29 happens: GetUpdates has returned for one candidate more than sem has
\* tokens, under a registry that answered only once no further request could
\* be sent, with the one module the cooldown kept.
C29_Witness ==
    /\ NpmReturned
    /\ Len(npmCandidates) = SemCapacity + 1
    /\ npmEnv.registry = "slow"
    /\ Cardinality(Kept) = 1
    /\ \A i \in Kept : npmRet.modules = <<moduleOf(npmCandidates[i])>>

\* two goroutines have appended: the second module follows the first
TwoAppended == NpmReturned /\ Len(npmRet.modules) = 2 /\ Len(npmCandidates) = 2

\* sem is full while a goroutine waits for a token
PoolFull == Cardinality(InFlight) = SemCapacity /\ \E i \in DOMAIN npmWorker : npmWorker[i].pc = "acquire"

(***************************************************************************)
(* Specifications.  Each one runs one component; the variables of the      *)
(* others stay at rest.                                                    *)
(***************************************************************************)
GomodIdle ==
    /\ gmItems = <<>>
    /\ goModContents = <<>>
    /\ idx = EmptyIndex
    /\ gmPc = "idle"

CooldownIdle ==
    /\ updateTime = <<>>
    /\ minDays = 0
    /\ now = ZeroDuration
    /\ eligible = FALSE
    /\ cdPc = "idle"

FilterIdle ==
    /\ modules = <<>>
    /\ reqIndex = EmptyIndex
    /\ opts = [Filter |-> <<>>, FilterRegex |-> <<>>, IncludeAll |-> FALSE, CooldownDays |-> 0]
    /\ scanNow = ZeroDuration
    /\ out = <<>>
    /\ scanErr = FALSE
    /\ scanPc = "idle"

DecodeIdle ==
    /\ pieces = <<>>
    /\ output = <<>>
    /\ decoded = <<>>
    /\ decodeErr = FALSE
    /\ decPc = "idle"

GetIdle ==
    /\ goModFile = [readable |-> FALSE, contents |-> <<>>]
    /\ goList = [fails |-> TRUE, output |-> <<>>]
    /\ getOpts = [Filter |-> <<>>, FilterRegex |-> <<>>, IncludeAll |-> FALSE, CooldownDays |-> 0]
    /\ getLocals = NoLocals
    /\ getRet = NotReturned
    /\ listCalls = 0
    /\ getPc = "idle"

DiffIdle ==
    /\ v1 = <<>>
    /\ v2 = <<>>
    /\ diff = "none"
    /\ diffPc = "idle"

GroupIdle ==
    /\ fmtModule = ZeroModule
    /\ group = "none"
    /\ label = "none"
    /\ sortKey = -1
    /\ groupCalls = {}

RunIdle ==
    /\ runOpts = [Upgrade |-> FALSE, Interactive |-> FALSE, All |-> FALSE,
                  ShowVulnerabilities |-> FALSE, FormatFlag |-> <<>>,
                  Filter |-> <<>>, Cooldown |-> 0]
    /\ runDeps = [Out |-> FALSE, GetUpdates |-> <<>>, UpdatePackages |-> <<>>,
                  StartInteractive |-> FALSE]
    /\ runVuln = <<>>
    /\ runLocals = NoRunLocals
    /\ runCalls = <<>>
    /\ runOut = <<>>
    /\ runRet = RunPending
    /\ runPc = "idle"

UpdaterIdle ==
    /\ updModules = <<>>
    /\ updEnv = [get |-> NoError, tidy |-> NoError]
    /\ updCalls = <<>>
    /\ updRet = RunPending
    /\ updPc = "idle"

CheckModuleIdle ==
    /\ ckDatabase = <<>>
    /\ ckCache = EmptyCache
    /\ ckLast = NoCheck
    /\ ckCalls = -1

ClientIdle ==
    /\ vcCache = EmptyCache
    /\ vcMu = UnlockedMutex
    /\ vcCaller = <<>>
    /\ vcWritten = [k \in {} |-> <<>>]
    /\ vcStarts = -1

TuiIdle ==
    /\ tuiArgs = [direct |-> <<>>, indirect |-> <<>>, transitive |-> <<>>,
                  opts |-> [FormatGroup |-> FALSE, FormatTime |-> FALSE]]
    /\ tuiModel = [choices |-> <<>>, selected |-> {}, cursor |-> 0, quitting |-> FALSE,
                   directEnd |-> 0, indirectEnd |-> 0, transitiveOn |-> FALSE,
                   opts |-> [FormatGroup |-> FALSE, FormatTime |-> FALSE]]
    /\ tuiLast = NoKey
    /\ tuiKeys = -1
    /\ tuiCalls = <<>>
    /\ tuiPc = "idle"

NpmIdle ==
    /\ npmEnv = Scenario(FALSE, "none", <<>>, [IncludeAll |-> FALSE, Filter |-> <<>>, CooldownDays |-> 0], "prompt")
    /\ npmCandidates = <<>>
    /\ npmWorker = <<>>
    /\ npmSem = 0
    /\ npmMu = <<>>
    /\ npmWg = 0
    /\ npmModules = <<>>
    /\ npmRet = NotReturned
    /\ npmPc = "idle"

GomodStart == InitGomod /\ CooldownIdle /\ FilterIdle /\ DecodeIdle /\ GetIdle /\ DiffIdle /\ GroupIdle /\ RunIdle /\ UpdaterIdle /\ CheckModuleIdle /\ ClientIdle /\ TuiIdle /\ NpmIdle
NextGomod == DoParseRequireIndex /\ UNCHANGED <<cooldownVars, filterVars, decodeVars, getVars, diffVars, groupVars, runVars, updVars, checkVars, clientVars, tuiVars, npmVars>>
SpecGomod == GomodStart /\ [][NextGomod]_vars

CooldownStart == InitCooldown /\ GomodIdle /\ FilterIdle /\ DecodeIdle /\ GetIdle /\ DiffIdle /\ GroupIdle /\ RunIdle /\ UpdaterIdle /\ CheckModuleIdle /\ ClientIdle /\ TuiIdle /\ NpmIdle
NextCooldown == CallEligible /\ UNCHANGED <<gomodVars, filterVars, decodeVars, getVars, diffVars, groupVars, runVars, updVars, checkVars, clientVars, tuiVars, npmVars>>
SpecCooldown == CooldownStart /\ [][NextCooldown]_vars

FilterStart == InitFilter /\ GomodIdle /\ CooldownIdle /\ DecodeIdle /\ GetIdle /\ DiffIdle /\ GroupIdle /\ RunIdle /\ UpdaterIdle /\ CheckModuleIdle /\ ClientIdle /\ TuiIdle /\ NpmIdle
NextFilter ==
    \/ CompileFilter /\ UNCHANGED <<gomodVars, cooldownVars, decodeVars, getVars, diffVars, groupVars, runVars, updVars, checkVars, clientVars, tuiVars, npmVars>>
    \/ CallAnnotateAndFilter /\ UNCHANGED <<gomodVars, cooldownVars, decodeVars, getVars, diffVars, groupVars, runVars, updVars, checkVars, clientVars, tuiVars, npmVars>>
SpecFilter == FilterStart /\ [][NextFilter]_vars

DecodeStart == InitDecode /\ GomodIdle /\ CooldownIdle /\ FilterIdle /\ GetIdle /\ DiffIdle /\ GroupIdle /\ RunIdle /\ UpdaterIdle /\ CheckModuleIdle /\ ClientIdle /\ TuiIdle /\ NpmIdle
NextDecode == CallDecodeGoListModules /\ UNCHANGED <<gomodVars, cooldownVars, filterVars, getVars, diffVars, groupVars, runVars, updVars, checkVars, clientVars, tuiVars, npmVars>>
SpecDecode == DecodeStart /\ [][NextDecode]_vars

GetUpdatesStart == InitGetUpdates /\ GomodIdle /\ CooldownIdle /\ FilterIdle /\ DecodeIdle /\ DiffIdle /\ GroupIdle /\ RunIdle /\ UpdaterIdle /\ CheckModuleIdle /\ ClientIdle /\ TuiIdle /\ NpmIdle
NextGetUpdates ==
    \/ GetReadRequireIndex /\ UNCHANGED <<gomodVars, cooldownVars, filterVars, decodeVars, diffVars, groupVars, runVars, updVars, checkVars, clientVars, tuiVars, npmVars>>
    \/ GetCompile /\ UNCHANGED <<gomodVars, cooldownVars, filterVars, decodeVars, diffVars, groupVars, runVars, updVars, checkVars, clientVars, tuiVars, npmVars>>
    \/ GetGoList /\ UNCHANGED <<gomodVars, cooldownVars, filterVars, decodeVars, diffVars, groupVars, runVars, updVars, checkVars, clientVars, tuiVars, npmVars>>
    \/ GetDecode /\ UNCHANGED <<gomodVars, cooldownVars, filterVars, decodeVars, diffVars, groupVars, runVars, updVars, checkVars, clientVars, tuiVars, npmVars>>
    \/ GetAnnotateAndFilter /\ UNCHANGED <<gomodVars, cooldownVars, filterVars, decodeVars, diffVars, groupVars, runVars, updVars, checkVars, clientVars, tuiVars, npmVars>>
SpecGetUpdates == GetUpdatesStart /\ [][NextGetUpdates]_vars

DiffStart == InitDiff /\ GomodIdle /\ CooldownIdle /\ FilterIdle /\ DecodeIdle /\ GetIdle /\ GroupIdle /\ RunIdle /\ UpdaterIdle /\ CheckModuleIdle /\ ClientIdle /\ TuiIdle /\ NpmIdle
NextDiff == CallGetDiffType /\ UNCHANGED <<gomodVars, cooldownVars, filterVars, decodeVars, getVars, groupVars, runVars, updVars, checkVars, clientVars, tuiVars, npmVars>>
SpecDiff == DiffStart /\ [][NextDiff]_vars

GroupStart == InitGroup /\ GomodIdle /\ CooldownIdle /\ FilterIdle /\ DecodeIdle /\ GetIdle /\ DiffIdle /\ RunIdle /\ UpdaterIdle /\ CheckModuleIdle /\ ClientIdle /\ TuiIdle /\ NpmIdle
NextGroup ==
    \/ CallGroupForModule /\ UNCHANGED <<gomodVars, cooldownVars, filterVars, decodeVars, getVars, diffVars, runVars, updVars, checkVars, clientVars, tuiVars, npmVars>>
    \/ CallGroupLabel /\ UNCHANGED <<gomodVars, cooldownVars, filterVars, decodeVars, getVars, diffVars, runVars, updVars, checkVars, clientVars, tuiVars, npmVars>>
    \/ CallGroupSortKey /\ UNCHANGED <<gomodVars, cooldownVars, filterVars, decodeVars, getVars, diffVars, runVars, updVars, checkVars, clientVars, tuiVars, npmVars>>
SpecGroup == GroupStart /\ [][NextGroup]_vars

RunStart == InitRun /\ GomodIdle /\ CooldownIdle /\ FilterIdle /\ DecodeIdle /\ GetIdle /\ DiffIdle /\ GroupIdle /\ UpdaterIdle /\ CheckModuleIdle /\ ClientIdle /\ TuiIdle /\ NpmIdle
NextRun ==
    \/ RunEnter /\ UNCHANGED <<gomodVars, cooldownVars, filterVars, decodeVars, getVars, diffVars, groupVars, updVars, checkVars, clientVars, tuiVars, npmVars>>
    \/ RunGetUpdates /\ UNCHANGED <<gomodVars, cooldownVars, filterVars, decodeVars, getVars, diffVars, groupVars, updVars, checkVars, clientVars, tuiVars, npmVars>>
    \/ RunCheckVulnerabilities /\ UNCHANGED <<gomodVars, cooldownVars, filterVars, decodeVars, getVars, diffVars, groupVars, updVars, checkVars, clientVars, tuiVars, npmVars>>
    \/ RunInteractive /\ UNCHANGED <<gomodVars, cooldownVars, filterVars, decodeVars, getVars, diffVars, groupVars, updVars, checkVars, clientVars, tuiVars, npmVars>>
    \/ RunLines /\ UNCHANGED <<gomodVars, cooldownVars, filterVars, decodeVars, getVars, diffVars, groupVars, updVars, checkVars, clientVars, tuiVars, npmVars>>
    \/ RunPrint /\ UNCHANGED <<gomodVars, cooldownVars, filterVars, decodeVars, getVars, diffVars, groupVars, updVars, checkVars, clientVars, tuiVars, npmVars>>
    \/ RunUpgrade /\ UNCHANGED <<gomodVars, cooldownVars, filterVars, decodeVars, getVars, diffVars, groupVars, updVars, checkVars, clientVars, tuiVars, npmVars>>
SpecRun == RunStart /\ [][NextRun]_vars

UpdaterStart == InitUpdater /\ GomodIdle /\ CooldownIdle /\ FilterIdle /\ DecodeIdle /\ GetIdle /\ DiffIdle /\ GroupIdle /\ RunIdle /\ CheckModuleIdle /\ ClientIdle /\ TuiIdle /\ NpmIdle
NextUpdater ==
    \/ UpdEnter /\ UNCHANGED <<gomodVars, cooldownVars, filterVars, decodeVars, getVars, diffVars, groupVars, runVars, checkVars, clientVars, tuiVars, npmVars>>
    \/ UpdGoGet /\ UNCHANGED <<gomodVars, cooldownVars, filterVars, decodeVars, getVars, diffVars, groupVars, runVars, checkVars, clientVars, tuiVars, npmVars>>
    \/ UpdGoModTidy /\ UNCHANGED <<gomodVars, cooldownVars, filterVars, decodeVars, getVars, diffVars, groupVars, runVars, checkVars, clientVars, tuiVars, npmVars>>
SpecUpdater == UpdaterStart /\ [][NextUpdater]_vars

CheckModuleStart == InitCheckModule /\ GomodIdle /\ CooldownIdle /\ FilterIdle /\ DecodeIdle /\ GetIdle /\ DiffIdle /\ GroupIdle /\ RunIdle /\ UpdaterIdle /\ ClientIdle /\ TuiIdle /\ NpmIdle
NextCheckModule == CallCheckModule /\ UNCHANGED <<gomodVars, cooldownVars, filterVars, decodeVars, getVars, diffVars, groupVars, runVars, updVars, clientVars, tuiVars, npmVars>>
SpecCheckModule == CheckModuleStart /\ [][NextCheckModule]_vars

ClientStart == InitClient /\ GomodIdle /\ CooldownIdle /\ FilterIdle /\ DecodeIdle /\ GetIdle /\ DiffIdle /\ GroupIdle /\ RunIdle /\ UpdaterIdle /\ CheckModuleIdle /\ TuiIdle /\ NpmIdle
NextClient ==
    \/ Call /\ UNCHANGED <<gomodVars, cooldownVars, filterVars, decodeVars, getVars, diffVars, groupVars, runVars, updVars, checkVars, tuiVars, npmVars>>
    \/ RLock /\ UNCHANGED <<gomodVars, cooldownVars, filterVars, decodeVars, getVars, diffVars, groupVars, runVars, updVars, checkVars, tuiVars, npmVars>>
    \/ ReadCache /\ UNCHANGED <<gomodVars, cooldownVars, filterVars, decodeVars, getVars, diffVars, groupVars, runVars, updVars, checkVars, tuiVars, npmVars>>
    \/ RUnlock /\ UNCHANGED <<gomodVars, cooldownVars, filterVars, decodeVars, getVars, diffVars, groupVars, runVars, updVars, checkVars, tuiVars, npmVars>>
    \/ Query /\ UNCHANGED <<gomodVars, cooldownVars, filterVars, decodeVars, getVars, diffVars, groupVars, runVars, updVars, checkVars, tuiVars, npmVars>>
    \/ Lock /\ UNCHANGED <<gomodVars, cooldownVars, filterVars, decodeVars, getVars, diffVars, groupVars, runVars, updVars, checkVars, tuiVars, npmVars>>
    \/ WriteCache /\ UNCHANGED <<gomodVars, cooldownVars, filterVars, decodeVars, getVars, diffVars, groupVars, runVars, updVars, checkVars, tuiVars, npmVars>>
    \/ Unlock /\ UNCHANGED <<gomodVars, cooldownVars, filterVars, decodeVars, getVars, diffVars, groupVars, runVars, updVars, checkVars, tuiVars, npmVars>>
SpecClient == ClientStart /\ [][NextClient]_vars

TuiStart == InitTui /\ GomodIdle /\ CooldownIdle /\ FilterIdle /\ DecodeIdle /\ GetIdle /\ DiffIdle /\ GroupIdle /\ RunIdle /\ UpdaterIdle /\ CheckModuleIdle /\ ClientIdle /\ NpmIdle
NextTui ==
    \/ TuiKey /\ UNCHANGED <<gomodVars, cooldownVars, filterVars, decodeVars, getVars, diffVars, groupVars, runVars, updVars, checkVars, clientVars, npmVars>>
    \/ TuiProgramFails /\ UNCHANGED <<gomodVars, cooldownVars, filterVars, decodeVars, getVars, diffVars, groupVars, runVars, updVars, checkVars, clientVars, npmVars>>
    \/ TuiApply /\ UNCHANGED <<gomodVars, cooldownVars, filterVars, decodeVars, getVars, diffVars, groupVars, runVars, updVars, checkVars, clientVars, npmVars>>
SpecTui == TuiStart /\ [][NextTui]_vars

NpmStart == InitNpm /\ GomodIdle /\ CooldownIdle /\ FilterIdle /\ DecodeIdle /\ GetIdle /\ DiffIdle /\ GroupIdle /\ RunIdle /\ UpdaterIdle /\ CheckModuleIdle /\ ClientIdle /\ TuiIdle
NextNpm ==
    \/ NpmPrepare /\ UNCHANGED <<gomodVars, cooldownVars, filterVars, decodeVars, getVars, diffVars, groupVars, runVars, updVars, checkVars, clientVars, tuiVars>>
    \/ NpmSpawn /\ UNCHANGED <<gomodVars, cooldownVars, filterVars, decodeVars, getVars, diffVars, groupVars, runVars, updVars, checkVars, clientVars, tuiVars>>
    \/ Acquire /\ UNCHANGED <<gomodVars, cooldownVars, filterVars, decodeVars, getVars, diffVars, groupVars, runVars, updVars, checkVars, clientVars, tuiVars>>
    \/ Fetched /\ UNCHANGED <<gomodVars, cooldownVars, filterVars, decodeVars, getVars, diffVars, groupVars, runVars, updVars, checkVars, clientVars, tuiVars>>
    \/ LockModules /\ UNCHANGED <<gomodVars, cooldownVars, filterVars, decodeVars, getVars, diffVars, groupVars, runVars, updVars, checkVars, clientVars, tuiVars>>
    \/ AppendRead /\ UNCHANGED <<gomodVars, cooldownVars, filterVars, decodeVars, getVars, diffVars, groupVars, runVars, updVars, checkVars, clientVars, tuiVars>>
    \/ AppendStore /\ UNCHANGED <<gomodVars, cooldownVars, filterVars, decodeVars, getVars, diffVars, groupVars, runVars, updVars, checkVars, clientVars, tuiVars>>
    \/ UnlockModules /\ UNCHANGED <<gomodVars, cooldownVars, filterVars, decodeVars, getVars, diffVars, groupVars, runVars, updVars, checkVars, clientVars, tuiVars>>
    \/ NpmWait /\ UNCHANGED <<gomodVars, cooldownVars, filterVars, decodeVars, getVars, diffVars, groupVars, runVars, updVars, checkVars, clientVars, tuiVars>>
SpecNpm == NpmStart /\ [][NextNpm]_vars
====
